---- MODULE Spec2Model ----
(***************************************************************************)
(* Model of alwitt/haven: an encrypted-at-rest, versioned key-value store. *)
(*                                                                         *)
(*  - persistence layer (package db): records, record versions, encryption *)
(*    keys, audit events and the system-parameter singleton, every         *)
(*    operation run inside a transaction;                                  *)
(*  - cryptography engine (package encryption): DEK generation, KEK        *)
(*    wrapping, the plaintext-DEK cache, AEAD seal / unseal;               *)
(*  - protected KV store (package store): the user-facing operations.      *)
(*                                                                         *)
(* A database is a record  [keys, records, versions, events, sys, nk, nr,  *)
(* nv];  every operation is an operator from a database (and, for the      *)
(* engine, the cache) to a result [ok, db, ret, ...].                      *)
(***************************************************************************)
EXTENDS Integers, Sequences, FiniteSets, TLC

VARIABLES
    db,        \* the committed database
    sess,      \* the caller-held open transaction (db.Database handle), or NoSess
    encKeys,   \* cryptoEngine.encKeys: the plaintext-DEK cache
    store,     \* the protectedKVStore handle: [built, workingKey]
    written,   \* history: version id -> what RecordKeyValue was asked to write
    sealed,    \* history: the EncryptData output the caller holds, or Nil
    last,      \* the outcome of the operation that just returned
    keyCacheLock,  \* cryptoEngine.keyCacheLock: the sync.RWMutex of the cache
    pc         \* goroutine -> the engine operation it runs and its position

vars == <<db, sess, encKeys, store, written, sealed, last, keyCacheLock, pc>>

----------------------------------------------------------------------------
(* Bounds of the model *)

MaxKeys == 2        \* encryption-key ids ever issued
MaxRecords == 2     \* record ids ever issued
MaxVersions == 2    \* record-version ids ever issued
MaxEvents == 4      \* audit events ever inserted
MaxTime == 1        \* distinct caller timestamps
MaxGoroutines == 3  \* goroutines calling the engine concurrently
MaxGoKeys == 1      \* key ids the concurrent callers work on

Names == {"alpha", "beta"}
Values == {"", "value1"}
Timestamps == 1..MaxTime
Faults == {"none", "audit"}
Blobs == {"ciphertext"}     \* opaque bytes a caller of the persistence layer stores

----------------------------------------------------------------------------
(* Enumerations *)

EncryptionKeyStateActive == "ACTIVE"
EncryptionKeyStateInactive == "INACTIVE"

SystemStatePreInit == "PRE_INITIALIZATION"
SystemStateInit == "INITIALIZING"
SystemStateRunning == "RUNNING"

SystemEventTypeInitializing == "SYSTEM_INITIALIZING"
SystemEventTypeInitialized == "SYSTEM_INITIALIZED"
SystemEventTypeNewEncryptionKey == "ADD_NEW_ENCRYPTION_KEY"
SystemEventTypeActivateEncryptionKey == "ACTIVATE_ENCRYPTION_KEY"
SystemEventTypeDeactivateEncryptionKey == "DEACTIVATE_ENCRYPTION_KEY"
SystemEventTypeDeleteEncryptionKey == "DELETE_ENCRYPTION_KEY"
SystemEventTypeAddNewRecord == "ADD_NEW_RECORD"
SystemEventTypeDeleteRecord == "DELETE_RECORD"

GlobalSystemParamEntryID == "system-parameters"

Absent == "ABSENT"          \* the system_params table has no row
Nil == [nil |-> TRUE]       \* a zero value returned with an error

----------------------------------------------------------------------------
(* Helpers *)

Drop(f, x) == [k \in DOMAIN f \ {x} |-> f[k]]
Put(f, x, v) == [k \in DOMAIN f \cup {x} |-> IF k = x THEN v ELSE f[k]]
Empty == [k \in {} |-> 0]

Ok(d, ret) == [ok |-> TRUE, db |-> d, ret |-> ret]
Fail(d) == [ok |-> FALSE, db |-> d, ret |-> Nil]

EmptyDB ==
    [keys |-> Empty, records |-> Empty, versions |-> Empty, events |-> <<>>,
     sys |-> Absent, nk |-> 0, nr |-> 0, nv |-> 0]

\* the tables of a database, without the id generators
Tables(d) == [keys |-> d.keys, records |-> d.records, versions |-> d.versions,
              events |-> d.events, sys |-> d.sys]

NoSess == [open |-> FALSE, failed |-> FALSE, db |-> EmptyDB]

----------------------------------------------------------------------------
(* Cryptographic primitives (cgoutils/crypto), modelled symbolically:     *)
(* a wrapped DEK or a sealed value can only be opened with the matching   *)
(* key (and nonce).                                                       *)

Junk == [junk |-> TRUE]     \* bytes that are no RSA-OAEP ciphertext under the KEK

RSAEncrypt(plainKey) == [wrapped |-> plainKey]

\* variant: the unwrapped bytes are not the bytes that were wrapped
RSADecryptOther(material) ==
    IF "wrapped" \in DOMAIN material
    THEN [ok |-> TRUE, key |-> material.wrapped \o <<0>>]
    ELSE [ok |-> FALSE, key |-> <<>>]

RSADecrypt(material) ==
    IF "wrapped" \in DOMAIN material
    THEN [ok |-> TRUE, key |-> material.wrapped]
    ELSE [ok |-> FALSE, key |-> <<>>]

\* The RNG never yields the same bytes twice: the n-th DEK and the nonce of
\* the n-th stored version are bytes of their own.
RNGKey(d) == <<d.nk + 1>>
RNGNonce(d) == <<d.nv + 1>>

Seal(key, nonce, plainText) == [k |-> key, n |-> nonce, p |-> plainText]

Unseal(key, nonce, cipherText) ==
    IF cipherText.k = key /\ cipherText.n = nonce
    THEN [ok |-> TRUE, plain |-> cipherText.p]
    ELSE [ok |-> FALSE, plain |-> Nil]

\* what a direct caller of the persistence layer hands in as key material
Materials == {RSAEncrypt(<<0>>), Junk}

----------------------------------------------------------------------------
(* Persistence layer: audit events *)

\* fault = "audit" makes the insert into system_audit_events fail
\* variant: the insert's error is dropped and the caller carries on
defineNewSystemEventSwallow(d, eventType, metadata, fault) ==
    LET newEntry == [type |-> eventType, meta |-> metadata]
    IN IF fault = "audit"
       THEN Ok(d, newEntry)
       ELSE Ok([d EXCEPT !.events = Append(@, newEntry)], newEntry)

defineNewSystemEvent(d, eventType, metadata, fault) ==
    IF fault = "audit"
    THEN Fail(d)
    ELSE LET newEntry == [type |-> eventType, meta |-> metadata]
         IN Ok([d EXCEPT !.events = Append(@, newEntry)], newEntry)

SystemEventEncKeyRelated(keyID) == [key_id |-> keyID]
SystemEventDataRecordRelated(recordID, recordName) ==
    [record_id |-> recordID, record_name |-> recordName]
NoMetadata == [none |-> TRUE]

\* the rows of system_audit_events: created_at is the time of the insert,
\* and the clock has moved on between two inserts
EventRows(d) ==
    {[created_at |-> i, type |-> d.events[i].type, meta |-> d.events[i].meta] :
        i \in 1..Len(d.events)}

\* variant: ORDER BY created_at desc, as the other listings have it
RECURSIVE OrderByCreatedAtDesc(_)
OrderByCreatedAtDesc(rows) ==
    IF rows = {} THEN <<>>
    ELSE LET m == CHOOSE x \in rows : \A y \in rows : y.created_at <= x.created_at
         IN <<m>> \o OrderByCreatedAtDesc(rows \ {m})

\* ORDER BY created_at
RECURSIVE OrderByCreatedAt(_)
OrderByCreatedAt(rows) ==
    IF rows = {} THEN <<>>
    ELSE LET m == CHOOSE x \in rows : \A y \in rows : x.created_at <= y.created_at
         IN <<m>> \o OrderByCreatedAt(rows \ {m})

\* the event-type filters a caller asks for
EventFilters ==
    {{}, {SystemEventTypeNewEncryptionKey},
     {SystemEventTypeAddNewRecord, SystemEventTypeDeleteRecord}}

\* filters.EventTypes; an empty filter selects every event
ListSystemEvents(d, eventTypes) ==
    Ok(d, OrderByCreatedAt({e \in EventRows(d) :
                              eventTypes = {} \/ e.type \in eventTypes}))

----------------------------------------------------------------------------
(* Persistence layer: encryption keys *)

KeyEntry(d, keyID) ==
    [id |-> keyID, mat |-> d.keys[keyID].mat, state |-> d.keys[keyID].state]

\* variant: the new row is inserted in state INACTIVE
RecordEncryptionKeyInactive(d, encKeyMaterial, fault) ==
    LET id == d.nk + 1
        d1 == [d EXCEPT !.nk = id,
                        !.keys = Put(@, id, [mat |-> encKeyMaterial,
                                             state |-> EncryptionKeyStateInactive])]
        ev == defineNewSystemEvent(d1, SystemEventTypeNewEncryptionKey,
                                   SystemEventEncKeyRelated(id), fault)
    IN IF ~ev.ok THEN Fail(ev.db) ELSE Ok(ev.db, KeyEntry(ev.db, id))

RecordEncryptionKey(d, encKeyMaterial, fault) ==
    LET id == d.nk + 1
        d1 == [d EXCEPT !.nk = id,
                        !.keys = Put(@, id, [mat |-> encKeyMaterial,
                                             state |-> EncryptionKeyStateActive])]
        ev == defineNewSystemEvent(d1, SystemEventTypeNewEncryptionKey,
                                   SystemEventEncKeyRelated(id), fault)
    IN IF ~ev.ok THEN Fail(ev.db) ELSE Ok(ev.db, KeyEntry(ev.db, id))

GetEncryptionKey(d, keyID) ==
    IF keyID \in DOMAIN d.keys THEN Ok(d, KeyEntry(d, keyID)) ELSE Fail(d)

\* filters.TargetState; an empty filter selects every key.  Newest first.
RECURSIVE NewestFirst(_)
NewestFirst(ids) ==
    IF ids = {} THEN <<>>
    ELSE LET m == CHOOSE x \in ids : \A y \in ids : y <= x
         IN <<m>> \o NewestFirst(ids \ {m})

\* variant: the state filter is not applied
ListEncryptionKeysAll(d, targetState) ==
    LET order == NewestFirst(DOMAIN d.keys)
    IN Ok(d, [i \in 1..Len(order) |-> KeyEntry(d, order[i])])

ListEncryptionKeys(d, targetState) ==
    LET sel == {k \in DOMAIN d.keys :
                  targetState = {} \/ d.keys[k].state \in targetState}
        order == NewestFirst(sel)
    IN Ok(d, [i \in 1..Len(order) |-> KeyEntry(d, order[i])])

EncKeyValidateNextState(state, newState) ==
    /\ state \in {EncryptionKeyStateActive, EncryptionKeyStateInactive}
    /\ newState \in {EncryptionKeyStateActive, EncryptionKeyStateInactive}

\* variant: no short-circuit when the key is already in the target state
updateEncKeyStateAlways(d, keyID, newState, fault) ==
    IF keyID \notin DOMAIN d.keys THEN Fail(d)
    ELSE IF ~EncKeyValidateNextState(d.keys[keyID].state, newState) THEN Fail(d)
    ELSE LET d1 == [d EXCEPT !.keys[keyID].state = newState]
             systemEventType ==
                 IF newState = EncryptionKeyStateActive
                 THEN SystemEventTypeActivateEncryptionKey
                 ELSE SystemEventTypeDeactivateEncryptionKey
             ev == defineNewSystemEvent(d1, systemEventType,
                                        SystemEventEncKeyRelated(keyID), fault)
         IN IF ~ev.ok THEN Fail(ev.db) ELSE Ok(ev.db, Nil)

\* variant: the state change also rewrites the stored key material
updateEncKeyStateRewrap(d, keyID, newState, fault) ==
    IF keyID \notin DOMAIN d.keys THEN Fail(d)
    ELSE IF d.keys[keyID].state = newState THEN Ok(d, Nil)
    ELSE IF ~EncKeyValidateNextState(d.keys[keyID].state, newState) THEN Fail(d)
    ELSE LET d1 == [d EXCEPT !.keys[keyID].state = newState,
                             !.keys[keyID].mat = Junk]
             systemEventType ==
                 IF newState = EncryptionKeyStateActive
                 THEN SystemEventTypeActivateEncryptionKey
                 ELSE SystemEventTypeDeactivateEncryptionKey
             ev == defineNewSystemEvent(d1, systemEventType,
                                        SystemEventEncKeyRelated(keyID), fault)
         IN IF ~ev.ok THEN Fail(ev.db) ELSE Ok(ev.db, Nil)

updateEncKeyState(d, keyID, newState, fault) ==
    IF keyID \notin DOMAIN d.keys THEN Fail(d)
    ELSE IF d.keys[keyID].state = newState THEN Ok(d, Nil)
    ELSE IF ~EncKeyValidateNextState(d.keys[keyID].state, newState) THEN Fail(d)
    ELSE LET d1 == [d EXCEPT !.keys[keyID].state = newState]
             systemEventType ==
                 IF newState = EncryptionKeyStateActive
                 THEN SystemEventTypeActivateEncryptionKey
                 ELSE SystemEventTypeDeactivateEncryptionKey
             ev == defineNewSystemEvent(d1, systemEventType,
                                        SystemEventEncKeyRelated(keyID), fault)
         IN IF ~ev.ok THEN Fail(ev.db) ELSE Ok(ev.db, Nil)

MarkEncryptionKeyActive(d, keyID, fault) ==
    updateEncKeyState(d, keyID, EncryptionKeyStateActive, fault)

MarkEncryptionKeyInactive(d, keyID, fault) ==
    updateEncKeyState(d, keyID, EncryptionKeyStateInactive, fault)

\* record_versions.enc_key_id ... ON DELETE CASCADE
\* variant: the foreign key without ON DELETE CASCADE enforcement
CascadeEncKeyNone(versions, keyID) == versions

CascadeEncKey(versions, keyID) ==
    [v \in {x \in DOMAIN versions : versions[x].enc_key_id # keyID} |-> versions[v]]

\* variant: the delete also clears the audit events that mention the key
DeleteEncryptionKeyPurge(d, keyID, fault) ==
    IF keyID \notin DOMAIN d.keys THEN Fail(d)
    ELSE LET Keep(e) == e.meta # SystemEventEncKeyRelated(keyID)
             d1 == [d EXCEPT !.keys = Drop(@, keyID),
                             !.versions = CascadeEncKey(@, keyID),
                             !.events = SelectSeq(@, Keep)]
             ev == defineNewSystemEvent(d1, SystemEventTypeDeleteEncryptionKey,
                                        SystemEventEncKeyRelated(keyID), fault)
         IN IF ~ev.ok THEN Fail(ev.db) ELSE Ok(ev.db, Nil)

\* variant: the delete also removes the records left without a version
DeleteEncryptionKeyOrphans(d, keyID, fault) ==
    IF keyID \notin DOMAIN d.keys THEN Fail(d)
    ELSE LET versions == CascadeEncKey(d.versions, keyID)
             Kept(r) == \/ \E v \in DOMAIN versions : versions[v].record_id = r
                        \/ ~\E v \in DOMAIN d.versions : d.versions[v].record_id = r
             d1 == [d EXCEPT !.keys = Drop(@, keyID),
                             !.versions = versions,
                             !.records = [r \in {x \in DOMAIN @ : Kept(x)} |-> @[r]]]
             ev == defineNewSystemEvent(d1, SystemEventTypeDeleteEncryptionKey,
                                        SystemEventEncKeyRelated(keyID), fault)
         IN IF ~ev.ok THEN Fail(ev.db) ELSE Ok(ev.db, Nil)

DeleteEncryptionKey(d, keyID, fault) ==
    IF keyID \notin DOMAIN d.keys THEN Fail(d)
    ELSE LET d1 == [d EXCEPT !.keys = Drop(@, keyID),
                             !.versions = CascadeEncKey(@, keyID)]
             ev == defineNewSystemEvent(d1, SystemEventTypeDeleteEncryptionKey,
                                        SystemEventEncKeyRelated(keyID), fault)
         IN IF ~ev.ok THEN Fail(ev.db) ELSE Ok(ev.db, Nil)

----------------------------------------------------------------------------
(* Persistence layer: records and record versions *)

RecordOf(d, recordID) == [id |-> recordID, name |-> d.records[recordID]]

\* records.name is "not null;unique", validate:"required"
NameTaken(d, name) == \E r \in DOMAIN d.records : d.records[r] = name

\* variant: the name column without its unique index
DefineNewRecordNoUnique(d, name, fault) ==
    IF name = "" THEN Fail(d)
    ELSE LET id == d.nr + 1
             d1 == [d EXCEPT !.nr = id, !.records = Put(@, id, name)]
             ev == defineNewSystemEvent(d1, SystemEventTypeAddNewRecord,
                                        SystemEventDataRecordRelated(id, name), fault)
         IN IF ~ev.ok THEN Fail(ev.db) ELSE Ok(ev.db, [id |-> id, name |-> name])

\* variant: the id of a deleted record is handed out again
DefineNewRecordReuseID(d, name, fault) ==
    IF name = "" THEN Fail(d)
    ELSE IF \E r \in DOMAIN d.records : d.records[r] = name THEN Fail(d)
    ELSE LET id == CHOOSE i \in 1..(d.nr + 1) :
                       /\ i \notin DOMAIN d.records
                       /\ \A j \in 1..(i - 1) : j \in DOMAIN d.records
             d1 == [d EXCEPT !.nr = IF id > @ THEN id ELSE @,
                             !.records = Put(@, id, name)]
             ev == defineNewSystemEvent(d1, SystemEventTypeAddNewRecord,
                                        SystemEventDataRecordRelated(id, name), fault)
         IN IF ~ev.ok THEN Fail(ev.db) ELSE Ok(ev.db, [id |-> id, name |-> name])

DefineNewRecord(d, name, fault) ==
    IF name = "" THEN Fail(d)
    ELSE IF NameTaken(d, name) THEN Fail(d)
    ELSE LET id == d.nr + 1
             d1 == [d EXCEPT !.nr = id, !.records = Put(@, id, name)]
             ev == defineNewSystemEvent(d1, SystemEventTypeAddNewRecord,
                                        SystemEventDataRecordRelated(id, name), fault)
         IN IF ~ev.ok THEN Fail(ev.db) ELSE Ok(ev.db, RecordOf(ev.db, id))

GetRecord(d, recordID) ==
    IF recordID \in DOMAIN d.records THEN Ok(d, RecordOf(d, recordID)) ELSE Fail(d)

GetRecordByName(d, recordName) ==
    IF NameTaken(d, recordName)
    THEN Ok(d, RecordOf(d, CHOOSE r \in DOMAIN d.records : d.records[r] = recordName))
    ELSE Fail(d)

\* record_versions.record_id ... ON DELETE CASCADE
\* variant: the foreign key without ON DELETE CASCADE enforcement
CascadeRecordNone(versions, recordID) == versions

CascadeRecord(versions, recordID) ==
    [v \in {x \in DOMAIN versions : versions[x].record_id # recordID} |-> versions[v]]

\* variant: the audit event is built after the delete, without the name
DeleteRecordAnonymous(d, recordID, fault) ==
    IF recordID \notin DOMAIN d.records THEN Fail(d)
    ELSE LET d1 == [d EXCEPT !.records = Drop(@, recordID),
                             !.versions = CascadeRecord(@, recordID)]
             ev == defineNewSystemEvent(d1, SystemEventTypeDeleteRecord,
                        SystemEventDataRecordRelated(recordID, ""), fault)
         IN IF ~ev.ok THEN Fail(ev.db) ELSE Ok(ev.db, Nil)

\* variant: deleting a record that does not exist succeeds and is logged
DeleteRecordLenient(d, recordID, fault) ==
    LET name == IF recordID \in DOMAIN d.records THEN d.records[recordID] ELSE ""
        d1 == [d EXCEPT !.records = Drop(@, recordID),
                        !.versions = CascadeRecord(@, recordID)]
        ev == defineNewSystemEvent(d1, SystemEventTypeDeleteRecord,
                                   SystemEventDataRecordRelated(recordID, name), fault)
    IN IF ~ev.ok THEN Fail(ev.db) ELSE Ok(ev.db, Nil)

DeleteRecord(d, recordID, fault) ==
    IF recordID \notin DOMAIN d.records THEN Fail(d)
    ELSE LET entry == RecordOf(d, recordID)
             d1 == [d EXCEPT !.records = Drop(@, recordID),
                             !.versions = CascadeRecord(@, recordID)]
             ev == defineNewSystemEvent(d1, SystemEventTypeDeleteRecord,
                        SystemEventDataRecordRelated(entry.id, entry.name), fault)
         IN IF ~ev.ok THEN Fail(ev.db) ELSE Ok(ev.db, Nil)

VersionOf(d, versionID) == [id |-> versionID] @@ d.versions[versionID]

\* variant: the version row is inserted without the foreign-key checks
DefineNewVersionForRecordNoFK(d, record, encKey, value, nonce, timestamp) ==
    LET id == d.nv + 1
        row == [record_id |-> record.id, enc_key_id |-> encKey.id,
                enc_value |-> value, enc_nonce |-> nonce,
                created_at |-> timestamp, updated_at |-> timestamp]
        d1 == [d EXCEPT !.nv = id, !.versions = Put(@, id, row)]
    IN Ok(d1, [id |-> id] @@ row)

\* variant: updated_at is stamped one tick after created_at
DefineNewVersionForRecordRestamped(d, record, encKey, value, nonce, timestamp) ==
    IF record.id \notin DOMAIN d.records \/ encKey.id \notin DOMAIN d.keys
    THEN Fail(d)
    ELSE LET id == d.nv + 1
             row == [record_id |-> record.id, enc_key_id |-> encKey.id,
                     enc_value |-> value, enc_nonce |-> nonce,
                     created_at |-> timestamp, updated_at |-> timestamp + 1]
             d1 == [d EXCEPT !.nv = id, !.versions = Put(@, id, row)]
         IN Ok(d1, VersionOf(d1, id))

\* the two foreign keys of record_versions must refer to existing rows
DefineNewVersionForRecord(d, record, encKey, value, nonce, timestamp) ==
    IF record.id \notin DOMAIN d.records \/ encKey.id \notin DOMAIN d.keys
    THEN Fail(d)
    ELSE LET id == d.nv + 1
             row == [record_id |-> record.id, enc_key_id |-> encKey.id,
                     enc_value |-> value, enc_nonce |-> nonce,
                     created_at |-> timestamp, updated_at |-> timestamp]
             d1 == [d EXCEPT !.nv = id, !.versions = Put(@, id, row)]
         IN Ok(d1, VersionOf(d1, id))

GetRecordVersion(d, versionID) ==
    IF versionID \in DOMAIN d.versions THEN Ok(d, VersionOf(d, versionID)) ELSE Fail(d)

\* variant: the listing is not narrowed to the record
ListVersionsOfOneRecordAll(d, record) ==
    Ok(d, {VersionOf(d, v) : v \in DOMAIN d.versions})

ListVersionsOfOneRecord(d, record) ==
    Ok(d, {VersionOf(d, v) : v \in {x \in DOMAIN d.versions :
                                      d.versions[x].record_id = record.id}})

----------------------------------------------------------------------------
(* Persistence layer: the system-parameter singleton *)

\* variant: a row that is present is written back in its initial state
getSystemParamEntryReset(d) ==
    Ok([d EXCEPT !.sys = SystemStatePreInit],
       [id |-> GlobalSystemParamEntryID, state |-> SystemStatePreInit])

getSystemParamEntry(d) ==
    IF d.sys = Absent
    THEN Ok([d EXCEPT !.sys = SystemStatePreInit],
            [id |-> GlobalSystemParamEntryID, state |-> SystemStatePreInit])
    ELSE Ok(d, [id |-> GlobalSystemParamEntryID, state |-> d.sys])

GetSystemParamEntry(d) == getSystemParamEntry(d)

statesWithTransitions ==
    [s \in {SystemStatePreInit, SystemStateInit, SystemStateRunning} |->
        CASE s = SystemStatePreInit -> {SystemStatePreInit, SystemStateInit}
          [] s = SystemStateInit -> {SystemStateInit, SystemStateRunning}
          [] s = SystemStateRunning -> {SystemStateRunning}]

\* variant: every transition between known states is let through
ValidateNextStateAny(state, newState) ==
    /\ state \in DOMAIN statesWithTransitions
    /\ newState \in DOMAIN statesWithTransitions

ValidateNextState(state, newState) ==
    /\ state \in DOMAIN statesWithTransitions
    /\ newState \in statesWithTransitions[state]

\* variant: no short-circuit when the entry is already in the target state
updateSystemParamStateAlways(d, newState, fault) ==
    LET got == getSystemParamEntry(d)
        oldState == got.ret.state
        d1 == [got.db EXCEPT !.sys = newState]
    IN IF ~ValidateNextState(oldState, newState) THEN Fail(got.db)
       ELSE IF newState = SystemStateInit
       THEN LET ev == defineNewSystemEvent(
                          d1, SystemEventTypeInitializing, NoMetadata, fault)
            IN IF ~ev.ok THEN Fail(ev.db) ELSE Ok(ev.db, Nil)
       ELSE IF newState = SystemStateRunning /\ oldState = SystemStateInit
       THEN LET ev == defineNewSystemEvent(
                          d1, SystemEventTypeInitialized, NoMetadata, fault)
            IN IF ~ev.ok THEN Fail(ev.db) ELSE Ok(ev.db, Nil)
       ELSE Ok(d1, Nil)

updateSystemParamState(d, newState, fault) ==
    LET got == getSystemParamEntry(d)
        entry == got.ret
        d0 == got.db
    IN IF entry.state = newState THEN Ok(d0, Nil)
       ELSE IF ~ValidateNextState(entry.state, newState) THEN Fail(d0)
       ELSE LET oldState == entry.state
                d1 == [d0 EXCEPT !.sys = newState]
            IN IF newState = SystemStateInit
               THEN LET ev == defineNewSystemEvent(
                                  d1, SystemEventTypeInitializing, NoMetadata, fault)
                    IN IF ~ev.ok THEN Fail(ev.db) ELSE Ok(ev.db, Nil)
               ELSE IF newState = SystemStateRunning /\ oldState = SystemStateInit
               THEN LET ev == defineNewSystemEvent(
                                  d1, SystemEventTypeInitialized, NoMetadata, fault)
                    IN IF ~ev.ok THEN Fail(ev.db) ELSE Ok(ev.db, Nil)
               ELSE Ok(d1, Nil)

MarkSystemInitializing(d, fault) == updateSystemParamState(d, SystemStateInit, fault)

MarkSystemInitialized(d, fault) == updateSystemParamState(d, SystemStateRunning, fault)

----------------------------------------------------------------------------
(* Transactions (db/client.go).  A result of the upper layers is          *)
(* [ok, db, ret, cache, tx]: tx counts the transactions the call opened.  *)

Lift(r, cache) == [ok |-> r.ok, db |-> r.db, ret |-> r.ret, cache |-> cache, tx |-> 0]

\* gorm's Transaction: commit when coreLogic returns nil, roll back otherwise.
\* d is the database when the transaction starts, r what coreLogic made of it.
\* variant: the callback runs on the plain handle, as UseDatabase does: a
\* failed callback leaves its writes in place
UseDatabaseInTransactionNoRollback(d, r) == [r EXCEPT !.tx = @ + 1]

UseDatabaseInTransaction(d, r) ==
    [r EXCEPT !.db = IF r.ok THEN r.db ELSE d, !.tx = @ + 1]

\* activeDBClient == nil: open a transaction; otherwise run in the caller's
ActiveSessionWrapper(active, d, r) ==
    IF ~active THEN UseDatabaseInTransaction(d, r) ELSE r

----------------------------------------------------------------------------
(* Cryptography engine: the plaintext-DEK cache.  A cache entry is the    *)
(* key entry plus plainTextKey, a byte string.                            *)

NoPlain == <<>>

CacheEntry(keyEntry, plainKey) ==
    [id |-> keyEntry.id, mat |-> keyEntry.mat, state |-> keyEntry.state,
     plain |-> plainKey]

EntryOf(cached) == [id |-> cached.id, mat |-> cached.mat, state |-> cached.state]

writeKeyToCache(cache, keyEntry, plainKey) ==
    Put(cache, keyEntry.id, CacheEntry(keyEntry, plainKey))

uncacheKey(cache, keyID) == Drop(cache, keyID)

\* [ok, cache, ret]
cacheKey(cache, keyEntry) ==
    IF keyEntry.state # EncryptionKeyStateActive
    THEN [ok |-> TRUE, cache |-> cache, ret |-> CacheEntry(keyEntry, NoPlain)]
    ELSE LET dec == RSADecrypt(keyEntry.mat)
         IN IF ~dec.ok
            THEN [ok |-> FALSE, cache |-> cache, ret |-> CacheEntry(keyEntry, NoPlain)]
            ELSE [ok |-> TRUE, cache |-> writeKeyToCache(cache, keyEntry, dec.key),
                  ret |-> CacheEntry(keyEntry, dec.key)]

EngFail(d, cache, tx) == [ok |-> FALSE, db |-> d, ret |-> Nil, cache |-> cache, tx |-> tx]

\* the bytes of a DEK itself, as they would sit in a key-material column
Raw(plainKey) == [raw |-> plainKey]

\* variant: the DEK is recorded as generated, without the RSA wrap
NewEncryptionKeyPlain(d, cache, active, fault) ==
    LET newKey == RNGKey(d)
        r == ActiveSessionWrapper(active, d,
                 Lift(RecordEncryptionKey(d, Raw(newKey), fault), cache))
    IN IF ~r.ok THEN r
       ELSE [r EXCEPT !.cache = writeKeyToCache(cache, r.ret, newKey)]

NewEncryptionKey(d, cache, active, fault) ==
    LET newKey == RNGKey(d)
        newKeyEnc == RSAEncrypt(newKey)
        r == ActiveSessionWrapper(active, d,
                 Lift(RecordEncryptionKey(d, newKeyEnc, fault), cache))
    IN IF ~r.ok THEN r
       ELSE [r EXCEPT !.cache = writeKeyToCache(cache, r.ret, newKey)]

\* variant: a cached entry is returned without reading the key row
getEncryptionKeyCacheFirst(d, cache, keyID, active) ==
    IF keyID \in DOMAIN cache
    THEN [ok |-> TRUE, db |-> d, ret |-> cache[keyID], cache |-> cache, tx |-> 0]
    ELSE LET r == ActiveSessionWrapper(active, d, Lift(GetEncryptionKey(d, keyID), cache))
         IN IF ~r.ok THEN r
            ELSE IF r.ret.state # EncryptionKeyStateActive
            THEN [r EXCEPT !.ret = CacheEntry(r.ret, NoPlain)]
            ELSE LET c == cacheKey(cache, r.ret)
                 IN IF ~c.ok THEN EngFail(r.db, c.cache, r.tx)
                    ELSE [r EXCEPT !.ret = c.ret, !.cache = c.cache]

getEncryptionKey(d, cache, keyID, active) ==
    LET r == ActiveSessionWrapper(active, d, Lift(GetEncryptionKey(d, keyID), cache))
    IN IF ~r.ok THEN r
       ELSE IF r.ret.state # EncryptionKeyStateActive
       THEN [r EXCEPT !.ret = CacheEntry(r.ret, NoPlain)]
       ELSE IF keyID \in DOMAIN cache
       THEN [r EXCEPT !.ret = cache[keyID]]
       ELSE LET c == cacheKey(cache, r.ret)
            IN IF ~c.ok THEN EngFail(r.db, c.cache, r.tx)
               ELSE [r EXCEPT !.ret = c.ret, !.cache = c.cache]

EngineGetEncryptionKey(d, cache, keyID, active) ==
    LET r == getEncryptionKey(d, cache, keyID, active)
    IN IF ~r.ok THEN r ELSE [r EXCEPT !.ret = EntryOf(r.ret)]

\* variant: the loop caches ACTIVE keys but evicts nothing
RECURSIVE ReconcileNoEvict(_, _, _)
ReconcileNoEvict(cache, keyEntries, i) ==
    IF i > Len(keyEntries) THEN [ok |-> TRUE, cache |-> cache]
    ELSE LET entry == keyEntries[i]
         IN IF entry.state = EncryptionKeyStateActive /\ entry.id \notin DOMAIN cache
            THEN LET c == cacheKey(cache, entry)
                 IN IF ~c.ok THEN [ok |-> FALSE, cache |-> c.cache]
                    ELSE ReconcileNoEvict(c.cache, keyEntries, i + 1)
            ELSE ReconcileNoEvict(cache, keyEntries, i + 1)

\* the reconciliation loop of ListEncryptionKeys over keyEntries[i..]
RECURSIVE Reconcile(_, _, _)
Reconcile(cache, keyEntries, i) ==
    IF i > Len(keyEntries) THEN [ok |-> TRUE, cache |-> cache]
    ELSE LET entry == keyEntries[i]
         IN IF entry.state = EncryptionKeyStateActive
            THEN IF entry.id \in DOMAIN cache
                 THEN Reconcile(cache, keyEntries, i + 1)
                 ELSE LET c == cacheKey(cache, entry)
                      IN IF ~c.ok THEN [ok |-> FALSE, cache |-> c.cache]
                         ELSE Reconcile(c.cache, keyEntries, i + 1)
            ELSE Reconcile(uncacheKey(cache, entry.id), keyEntries, i + 1)

EngineListEncryptionKeys(d, cache, targetState, active) ==
    LET r == ActiveSessionWrapper(active, d, Lift(ListEncryptionKeys(d, targetState), cache))
    IN IF ~r.ok THEN r
       ELSE LET rec == Reconcile(cache, r.ret, 1)
            IN IF ~rec.ok THEN EngFail(r.db, rec.cache, r.tx)
               ELSE [r EXCEPT !.cache = rec.cache]

\* variant: the activated key is returned without being unwrapped and cached
EngineMarkActiveCoreNoCache(d, cache, keyID, fault) ==
    LET m == MarkEncryptionKeyActive(d, keyID, fault)
    IN IF ~m.ok THEN Lift(m, cache)
       ELSE Lift(GetEncryptionKey(m.db, keyID), cache)

\* coreLogic of MarkEncryptionKeyActive: transition, re-read, cache
EngineMarkActiveCore(d, cache, keyID, fault) ==
    LET m == MarkEncryptionKeyActive(d, keyID, fault)
    IN IF ~m.ok THEN Lift(m, cache)
       ELSE LET g == GetEncryptionKey(m.db, keyID)
            IN IF ~g.ok THEN Lift(g, cache)
               ELSE LET c == cacheKey(cache, g.ret)
                    IN IF ~c.ok THEN EngFail(g.db, c.cache, 0)
                       ELSE [Lift(g, c.cache) EXCEPT !.ret = g.ret]

EngineMarkEncryptionKeyActive(d, cache, keyID, active, fault) ==
    ActiveSessionWrapper(active, d, EngineMarkActiveCore(d, cache, keyID, fault))

\* variant: the deactivated key stays in the cache
EngineMarkEncryptionKeyInactiveKeepCache(d, cache, keyID, active, fault) ==
    LET m == MarkEncryptionKeyInactive(d, keyID, fault)
        core == IF ~m.ok THEN Lift(m, cache) ELSE Lift(GetEncryptionKey(m.db, keyID), cache)
    IN ActiveSessionWrapper(active, d, core)

\* variant: the cached entry of the deactivated key is updated in place
EngineMarkEncryptionKeyInactiveUpdate(d, cache, keyID, active, fault) ==
    LET m == MarkEncryptionKeyInactive(d, keyID, fault)
        core == IF ~m.ok THEN Lift(m, cache) ELSE Lift(GetEncryptionKey(m.db, keyID), cache)
        r == ActiveSessionWrapper(active, d, core)
    IN IF ~r.ok THEN r
       ELSE IF r.ret.id \notin DOMAIN cache THEN r
       ELSE [r EXCEPT !.cache = Put(cache, r.ret.id,
                                    CacheEntry(r.ret, cache[r.ret.id].plain))]

EngineMarkEncryptionKeyInactive(d, cache, keyID, active, fault) ==
    LET m == MarkEncryptionKeyInactive(d, keyID, fault)
        core == IF ~m.ok THEN Lift(m, cache) ELSE Lift(GetEncryptionKey(m.db, keyID), cache)
        r == ActiveSessionWrapper(active, d, core)
    IN IF ~r.ok THEN r ELSE [r EXCEPT !.cache = uncacheKey(cache, r.ret.id)]

EngineDeleteEncryptionKey(d, cache, keyID, active, fault) ==
    LET r == ActiveSessionWrapper(active, d, Lift(DeleteEncryptionKey(d, keyID, fault), cache))
    IN IF ~r.ok THEN r ELSE [r EXCEPT !.cache = uncacheKey(cache, keyID)]

----------------------------------------------------------------------------
(* Cryptography engine: AEAD seal and unseal *)

EncryptData(d, cache, keyID, plainText, active) ==
    LET k == getEncryptionKey(d, cache, keyID, active)
        nonce == RNGNonce(d)
    IN IF ~k.ok THEN k
       ELSE IF Len(k.ret.plain) = 0 \/ k.ret.state # EncryptionKeyStateActive
       THEN EngFail(k.db, k.cache, k.tx)
       ELSE [k EXCEPT !.ret = [key |-> EntryOf(k.ret),
                               CipherText |-> Seal(k.ret.plain, nonce, plainText),
                               Nonce |-> nonce]]

\* variant: unseals with the key row's material whatever the key's state
DecryptDataAnyState(d, cache, keyID, encrypted, active) ==
    LET r == ActiveSessionWrapper(active, d, Lift(GetEncryptionKey(d, keyID), cache))
    IN IF ~r.ok THEN r
       ELSE LET u == Unseal(RSADecrypt(r.ret.mat).key, encrypted.Nonce,
                            encrypted.CipherText)
            IN IF ~u.ok THEN EngFail(r.db, r.cache, r.tx)
               ELSE [r EXCEPT !.ret = u.plain]

DecryptData(d, cache, keyID, encrypted, active) ==
    LET k == getEncryptionKey(d, cache, keyID, active)
    IN IF ~k.ok THEN k
       ELSE IF Len(k.ret.plain) = 0 \/ k.ret.state # EncryptionKeyStateActive
       THEN EngFail(k.db, k.cache, k.tx)
       ELSE LET u == Unseal(k.ret.plain, encrypted.Nonce, encrypted.CipherText)
            IN IF ~u.ok THEN EngFail(k.db, k.cache, k.tx)
               ELSE [k EXCEPT !.ret = u.plain]

----------------------------------------------------------------------------
(* Protected KV store *)

NoStore == [built |-> FALSE, workingKey |-> Nil]

\* coreLogic of the constructor: pick the newest ACTIVE key or make one
\* variant: the oldest ACTIVE key becomes the working key
NewProtectedKVStoreCoreOldest(d, cache, fault) ==
    LET activeKeys == EngineListEncryptionKeys(d, cache, {EncryptionKeyStateActive}, TRUE)
    IN IF ~activeKeys.ok THEN activeKeys
       ELSE IF Len(activeKeys.ret) = 0
       THEN NewEncryptionKey(activeKeys.db, activeKeys.cache, TRUE, fault)
       ELSE [activeKeys EXCEPT !.ret = activeKeys.ret[Len(activeKeys.ret)]]

NewProtectedKVStoreCore(d, cache, fault) ==
    LET activeKeys == EngineListEncryptionKeys(d, cache, {EncryptionKeyStateActive}, TRUE)
    IN IF ~activeKeys.ok THEN activeKeys
       ELSE IF Len(activeKeys.ret) = 0
       THEN NewEncryptionKey(activeKeys.db, activeKeys.cache, TRUE, fault)
       ELSE [activeKeys EXCEPT !.ret = activeKeys.ret[1]]

NewProtectedKVStore(d, cache, fault) ==
    UseDatabaseInTransaction(d, NewProtectedKVStoreCore(d, cache, fault))

\* variant: a record is defined for every write, without the lookup by name
resolveRecordNoLookup(d, key, fault) == DefineNewRecord(d, key, fault)

\* the record named key, defined if it does not exist yet
resolveRecord(d, key, fault) ==
    LET found == GetRecordByName(d, key)
    IN IF found.ok THEN found ELSE DefineNewRecord(d, key, fault)

\* the new version row, given the record and the outcome of EncryptData
recordVersion(rec, enc, timestamp) ==
    IF ~enc.ok THEN EngFail(enc.db, enc.cache, enc.tx)
    ELSE LET ver == DefineNewVersionForRecord(
                        enc.db, rec.ret, enc.ret.key,
                        enc.ret.CipherText, enc.ret.Nonce, timestamp)
         IN IF ~ver.ok THEN EngFail(ver.db, enc.cache, enc.tx)
            ELSE [ok |-> TRUE, db |-> ver.db, cache |-> enc.cache, tx |-> enc.tx,
                  ret |-> [record |-> rec.ret, version |-> ver.ret]]

\* the value encrypted under keyID and stored, given the record
encryptAndRecord(rec, cache, keyID, value, timestamp) ==
    IF ~rec.ok THEN EngFail(rec.db, cache, 0)
    ELSE recordVersion(rec, EncryptData(rec.db, cache, keyID, value, TRUE), timestamp)

\* variant: every write looks the newest ACTIVE key up again
RecordKeyValueCoreRefresh(d, cache, workingKey, key, value, timestamp, fault) ==
    LET activeKeys == ListEncryptionKeys(d, {EncryptionKeyStateActive})
        wk == IF Len(activeKeys.ret) = 0 THEN workingKey ELSE activeKeys.ret[1]
    IN encryptAndRecord(resolveRecord(d, key, fault), cache, wk.id, value, timestamp)

RecordKeyValueCore(d, cache, workingKey, key, value, timestamp, fault) ==
    encryptAndRecord(resolveRecord(d, key, fault), cache, workingKey.id, value, timestamp)

RecordKeyValue(d, cache, workingKey, key, value, timestamp, active, fault) ==
    LET r == ActiveSessionWrapper(active, d,
                 RecordKeyValueCore(d, cache, workingKey, key, value, timestamp, fault))
    IN IF ~r.ok THEN [r EXCEPT !.ret = Nil] ELSE r

ListKeyVersionsCore(d, cache, key) ==
    LET rec == GetRecordByName(d, key)
    IN IF ~rec.ok THEN Lift(rec, cache)
       ELSE LET vers == ListVersionsOfOneRecord(rec.db, rec.ret)
            IN [Lift(vers, cache) EXCEPT !.ret = [record |-> rec.ret, versions |-> vers.ret]]

ListKeyVersions(d, cache, key, active) ==
    ActiveSessionWrapper(active, d, ListKeyVersionsCore(d, cache, key))

\* variant: the stored nonce is not handed to the engine, which then draws
\* one of its own (setupAEAD with an empty nonce)
EncryptedDataNoNonce(versionEntry) ==
    [CipherText |-> versionEntry.enc_value, Nonce |-> <<>>]

EncryptedData(versionEntry) ==
    [CipherText |-> versionEntry.enc_value, Nonce |-> versionEntry.enc_nonce]

\* the version is read inside the wrapper; DecryptData is then handed
\* activeDBClient, not the wrapper's dbClient
GetValueOfKeyAtVersionID(d, cache, versionID, active) ==
    LET ver == ActiveSessionWrapper(active, d, Lift(GetRecordVersion(d, versionID), cache))
    IN IF ~ver.ok THEN ver
       ELSE LET dec == DecryptData(ver.db, cache, ver.ret.enc_key_id,
                                   EncryptedData(ver.ret), active)
            IN [dec EXCEPT !.tx = ver.tx + dec.tx]

GetValueOfKeyAtVersion(d, cache, versionEntry, active) ==
    DecryptData(d, cache, versionEntry.enc_key_id, EncryptedData(versionEntry), active)

DeleteKeyCore(d, cache, key, fault) ==
    LET rec == GetRecordByName(d, key)
    IN IF ~rec.ok THEN Lift(rec, cache)
       ELSE Lift(DeleteRecord(rec.db, rec.ret.id, fault), cache)

DeleteKey(d, cache, key, active, fault) ==
    ActiveSessionWrapper(active, d, DeleteKeyCore(d, cache, key, fault))

----------------------------------------------------------------------------
(* The state machine.  Every operation is called either inside the        *)
(* caller's open transaction (s = TRUE) or without one (s = FALSE).  A    *)
(* caller whose operation failed inside its transaction returns the error *)
(* from the transaction's callback, so the transaction rolls back.        *)
(* last.pre holds the tables as the operation found them.                 *)

(* Concurrent callers of the engine.  Each goroutine runs one engine      *)
(* operation at a time; pc[g] holds the operation and the position in it. *)
(* keyCacheLock is a sync.RWMutex: w is the writer that has announced     *)
(* itself (it holds the lock once the readers have drained), wq the       *)
(* writers queued behind it in arrival order (sync.Mutex hands the lock   *)
(* to its longest waiter once that one has waited 1ms), readers the       *)
(* goroutines holding the read lock and rblocked the readers parked       *)
(* behind an announced writer, which the writer's Unlock admits together. *)

Goroutines == 1..MaxGoroutines

GoKeys == 1..MaxGoKeys

NoWriter == 0

NoLock == [w |-> NoWriter, wq |-> <<>>, readers |-> {}, rblocked |-> {}]

RLock(l, g) ==
    IF l.w = NoWriter
    THEN [l EXCEPT !.readers = @ \cup {g}]
    ELSE [l EXCEPT !.rblocked = @ \cup {g}]

RUnlock(l, g) == [l EXCEPT !.readers = @ \ {g}]

Lock(l, g) ==
    IF l.w = NoWriter
    THEN [l EXCEPT !.w = g]
    ELSE [l EXCEPT !.wq = Append(@, g)]

Unlock(l, g) ==
    [w |-> IF l.wq = <<>> THEN NoWriter ELSE Head(l.wq),
     wq |-> IF l.wq = <<>> THEN <<>> ELSE Tail(l.wq),
     readers |-> l.rblocked,
     rblocked |-> {}]

ReadHeld(l, g) == g \in l.readers

WriteHeld(l, g) == l.w = g /\ l.readers = {}

\* engine operations by their use of the cache; GetEncryptionKey stands
\* for every caller of getEncryptionKey (EncryptData and DecryptData too)
EngineOps == {"NewEncryptionKey", "GetEncryptionKey", "ListEncryptionKeys",
              "MarkEncryptionKeyActive", "MarkEncryptionKeyInactive",
              "DeleteEncryptionKey"}

\* at: the position; key: the key id at hand; rest: the listed keys still
\* to visit; act: what the goroutine takes the exclusive lock for
Idle == [op |-> "none", at |-> "idle", key |-> 0, rest |-> <<>>, act |-> "none"]

KeyIds == 1..MaxKeys
RecIds == 1..MaxRecords
VerIds == 1..MaxVersions

Init ==
    /\ db = EmptyDB
    /\ sess = NoSess
    /\ encKeys = Empty
    /\ store = NoStore
    /\ written = Empty
    /\ sealed = Nil
    /\ last = [op |-> "init", ok |-> TRUE, sess |-> FALSE, fault |-> "none",
               arg |-> Nil, ret |-> Nil, tx |-> 0, pre |-> Tables(EmptyDB),
               cache |-> Empty]
    /\ keyCacheLock = NoLock
    /\ pc = [g \in Goroutines |-> Idle]

SessOK(s) == IF s THEN sess.open /\ ~sess.failed ELSE ~sess.open

Cur(s) == IF s THEN sess.db ELSE db

InBounds(d) ==
    /\ d.nk <= MaxKeys
    /\ d.nr <= MaxRecords
    /\ d.nv <= MaxVersions
    /\ Len(d.events) <= MaxEvents

\* the call returns r: the database and the cache take its effects
Return(op, s, fault, arg, r) ==
    /\ InBounds(r.db)
    /\ IF s THEN /\ sess' = [open |-> TRUE, failed |-> ~r.ok, db |-> r.db]
                 /\ db' = db
            ELSE /\ db' = r.db
                 /\ sess' = sess
    /\ encKeys' = r.cache
    /\ last' = [op |-> op, ok |-> r.ok, sess |-> s, fault |-> fault,
                arg |-> arg, ret |-> r.ret, tx |-> r.tx, pre |-> Tables(Cur(s)),
                cache |-> encKeys]
    /\ UNCHANGED <<keyCacheLock, pc>>

\* a persistence operation called through UseDatabaseInTransaction or in
\* the caller's transaction
DBCall(s, r) == ActiveSessionWrapper(s, Cur(s), Lift(r, encKeys))

BeginSession ==
    /\ ~sess.open
    /\ sess' = [open |-> TRUE, failed |-> FALSE, db |-> db]
    /\ last' = [op |-> "BeginSession", ok |-> TRUE, sess |-> TRUE, fault |-> "none",
                arg |-> Nil, ret |-> Nil, tx |-> 1, pre |-> Tables(db),
                cache |-> encKeys]
    /\ UNCHANGED <<db, encKeys, store, written, sealed, keyCacheLock, pc>>

CommitSession ==
    /\ sess.open /\ ~sess.failed
    /\ db' = sess.db
    /\ sess' = NoSess
    /\ last' = [op |-> "CommitSession", ok |-> TRUE, sess |-> TRUE, fault |-> "none",
                arg |-> Nil, ret |-> Nil, tx |-> 0, pre |-> Tables(db),
                cache |-> encKeys]
    /\ UNCHANGED <<encKeys, store, written, sealed, keyCacheLock, pc>>

\* the ids handed out inside the transaction are not handed out again
RollbackSession ==
    /\ sess.open
    /\ db' = [db EXCEPT !.nk = sess.db.nk, !.nr = sess.db.nr, !.nv = sess.db.nv]
    /\ sess' = NoSess
    /\ last' = [op |-> "RollbackSession", ok |-> TRUE, sess |-> TRUE, fault |-> "none",
                arg |-> Nil, ret |-> Nil, tx |-> 0, pre |-> Tables(db),
                cache |-> encKeys]
    /\ UNCHANGED <<encKeys, store, written, sealed, keyCacheLock, pc>>

(* persistence layer *)

DoRecordEncryptionKey ==
    \E s \in BOOLEAN, fault \in Faults, mat \in Materials :
        /\ SessOK(s)
        /\ Return("RecordEncryptionKey", s, fault, mat,
                  DBCall(s, RecordEncryptionKey(Cur(s), mat, fault)))
        /\ UNCHANGED <<store, written, sealed>>

DoGetEncryptionKey ==
    \E s \in BOOLEAN, k \in KeyIds :
        /\ SessOK(s)
        /\ Return("GetEncryptionKey", s, "none", k, DBCall(s, GetEncryptionKey(Cur(s), k)))
        /\ UNCHANGED <<store, written, sealed>>

DoListEncryptionKeys ==
    \E s \in BOOLEAN, f \in SUBSET {EncryptionKeyStateActive, EncryptionKeyStateInactive} :
        /\ SessOK(s)
        /\ Return("ListEncryptionKeys", s, "none", f,
                  DBCall(s, ListEncryptionKeys(Cur(s), f)))
        /\ UNCHANGED <<store, written, sealed>>

DoMarkEncryptionKeyActive ==
    \E s \in BOOLEAN, fault \in Faults, k \in KeyIds :
        /\ SessOK(s)
        /\ Return("MarkEncryptionKeyActive", s, fault, k,
                  DBCall(s, MarkEncryptionKeyActive(Cur(s), k, fault)))
        /\ UNCHANGED <<store, written, sealed>>

DoMarkEncryptionKeyInactive ==
    \E s \in BOOLEAN, fault \in Faults, k \in KeyIds :
        /\ SessOK(s)
        /\ Return("MarkEncryptionKeyInactive", s, fault, k,
                  DBCall(s, MarkEncryptionKeyInactive(Cur(s), k, fault)))
        /\ UNCHANGED <<store, written, sealed>>

DoDeleteEncryptionKey ==
    \E s \in BOOLEAN, fault \in Faults, k \in KeyIds :
        /\ SessOK(s)
        /\ Return("DeleteEncryptionKey", s, fault, k,
                  DBCall(s, DeleteEncryptionKey(Cur(s), k, fault)))
        /\ UNCHANGED <<store, written, sealed>>

DoDefineNewRecord ==
    \E s \in BOOLEAN, fault \in Faults, name \in Names :
        /\ SessOK(s)
        /\ Return("DefineNewRecord", s, fault, name,
                  DBCall(s, DefineNewRecord(Cur(s), name, fault)))
        /\ UNCHANGED <<store, written, sealed>>

DoGetRecord ==
    \E s \in BOOLEAN, r \in RecIds :
        /\ SessOK(s)
        /\ Return("GetRecord", s, "none", r, DBCall(s, GetRecord(Cur(s), r)))
        /\ UNCHANGED <<store, written, sealed>>

DoDeleteRecord ==
    \E s \in BOOLEAN, fault \in Faults, r \in RecIds :
        /\ SessOK(s)
        /\ Return("DeleteRecord", s, fault, r, DBCall(s, DeleteRecord(Cur(s), r, fault)))
        /\ UNCHANGED <<store, written, sealed>>

DoGetRecordVersion ==
    \E s \in BOOLEAN, v \in VerIds :
        /\ SessOK(s)
        /\ Return("GetRecordVersion", s, "none", v, DBCall(s, GetRecordVersion(Cur(s), v)))
        /\ UNCHANGED <<store, written, sealed>>

DoGetSystemParamEntry ==
    \E s \in BOOLEAN :
        /\ SessOK(s)
        /\ Return("GetSystemParamEntry", s, "none", Nil, DBCall(s, GetSystemParamEntry(Cur(s))))
        /\ UNCHANGED <<store, written, sealed>>

DoMarkSystemInitializing ==
    \E s \in BOOLEAN, fault \in Faults :
        /\ SessOK(s)
        /\ Return("MarkSystemInitializing", s, fault, Nil,
                  DBCall(s, MarkSystemInitializing(Cur(s), fault)))
        /\ UNCHANGED <<store, written, sealed>>

DoMarkSystemInitialized ==
    \E s \in BOOLEAN, fault \in Faults :
        /\ SessOK(s)
        /\ Return("MarkSystemInitialized", s, fault, Nil,
                  DBCall(s, MarkSystemInitialized(Cur(s), fault)))
        /\ UNCHANGED <<store, written, sealed>>

\* the caller passes a record and a key it holds, and bytes of its own
DoListSystemEvents ==
    \E s \in BOOLEAN, f \in EventFilters :
        /\ SessOK(s)
        /\ Return("ListSystemEvents", s, "none", f,
                  DBCall(s, ListSystemEvents(Cur(s), f)))
        /\ UNCHANGED <<store, written, sealed>>

DoDefineNewVersionForRecord ==
    \E s \in BOOLEAN, r \in RecIds, k \in KeyIds, value \in Blobs, timestamp \in Timestamps :
        /\ SessOK(s)
        /\ Return("DefineNewVersionForRecord", s, "none",
                  [record |-> r, key |-> k, timestamp |-> timestamp],
                  DBCall(s, DefineNewVersionForRecord(
                                Cur(s), [id |-> r], [id |-> k], value, <<0>>, timestamp)))
        /\ UNCHANGED <<store, written, sealed>>

(* cryptography engine *)

DoEngineNewEncryptionKey ==
    \E s \in BOOLEAN, fault \in Faults :
        /\ SessOK(s)
        /\ Return("Engine.NewEncryptionKey", s, fault, Nil,
                  NewEncryptionKey(Cur(s), encKeys, s, fault))
        /\ UNCHANGED <<store, written, sealed>>

DoEngineGetEncryptionKey ==
    \E s \in BOOLEAN, k \in KeyIds :
        /\ SessOK(s)
        /\ Return("Engine.GetEncryptionKey", s, "none", k,
                  EngineGetEncryptionKey(Cur(s), encKeys, k, s))
        /\ UNCHANGED <<store, written, sealed>>

DoEngineListEncryptionKeys ==
    \E s \in BOOLEAN, f \in SUBSET {EncryptionKeyStateActive, EncryptionKeyStateInactive} :
        /\ SessOK(s)
        /\ Return("Engine.ListEncryptionKeys", s, "none", f,
                  EngineListEncryptionKeys(Cur(s), encKeys, f, s))
        /\ UNCHANGED <<store, written, sealed>>

DoEngineMarkEncryptionKeyActive ==
    \E s \in BOOLEAN, fault \in Faults, k \in KeyIds :
        /\ SessOK(s)
        /\ Return("Engine.MarkEncryptionKeyActive", s, fault, k,
                  EngineMarkEncryptionKeyActive(Cur(s), encKeys, k, s, fault))
        /\ UNCHANGED <<store, written, sealed>>

DoEngineMarkEncryptionKeyInactive ==
    \E s \in BOOLEAN, fault \in Faults, k \in KeyIds :
        /\ SessOK(s)
        /\ Return("Engine.MarkEncryptionKeyInactive", s, fault, k,
                  EngineMarkEncryptionKeyInactive(Cur(s), encKeys, k, s, fault))
        /\ UNCHANGED <<store, written, sealed>>

DoEngineDeleteEncryptionKey ==
    \E s \in BOOLEAN, fault \in Faults, k \in KeyIds :
        /\ SessOK(s)
        /\ Return("Engine.DeleteEncryptionKey", s, fault, k,
                  EngineDeleteEncryptionKey(Cur(s), encKeys, k, s, fault))
        /\ UNCHANGED <<store, written, sealed>>

\* a new engine instance over the same persistence and the same RSA key
\* pair replaces the one in use: its cache starts empty, and the store
\* that wrapped the old instance is gone with it
DoNewCryptographyEngine ==
    /\ ~sess.open
    /\ db' = db
    /\ sess' = sess
    /\ encKeys' = Empty
    /\ store' = NoStore
    /\ last' = [op |-> "NewCryptographyEngine", ok |-> TRUE, sess |-> FALSE,
                fault |-> "none", arg |-> Nil, ret |-> Nil, tx |-> 0,
                pre |-> Tables(db),
                cache |-> encKeys]
    /\ UNCHANGED <<written, sealed, keyCacheLock, pc>>

DoEncryptData ==
    \E s \in BOOLEAN, k \in KeyIds, plainText \in Values :
        LET r == EncryptData(Cur(s), encKeys, k, plainText, s)
        IN /\ SessOK(s)
           /\ Return("Engine.EncryptData", s, "none",
                     [key |-> k, plainText |-> plainText], r)
           /\ sealed' = IF r.ok
                        THEN [key |-> k, plainText |-> plainText,
                              at |-> Len(Cur(s).events),
                              encrypted |-> [CipherText |-> r.ret.CipherText,
                                             Nonce |-> r.ret.Nonce]]
                        ELSE sealed
           /\ UNCHANGED <<store, written>>

DoDecryptData ==
    \E s \in BOOLEAN, k \in KeyIds :
        /\ sealed # Nil
        /\ SessOK(s)
        /\ Return("Engine.DecryptData", s, "none",
                  [key |-> k, sealed |-> sealed],
                  DecryptData(Cur(s), encKeys, k, sealed.encrypted, s))
        /\ UNCHANGED <<store, written, sealed>>

(* protected KV store *)

DoNewProtectedKVStore ==
    \E fault \in Faults :
        LET r == NewProtectedKVStore(db, encKeys, fault)
        IN /\ ~store.built
           /\ SessOK(FALSE)
           /\ Return("NewProtectedKVStore", FALSE, fault, Nil, r)
           /\ store' = IF r.ok THEN [built |-> TRUE, workingKey |-> r.ret] ELSE store
           /\ UNCHANGED <<written, sealed>>

DoRecordKeyValue ==
    \E s \in BOOLEAN, fault \in Faults, key \in Names, value \in Values,
       timestamp \in Timestamps :
        LET r == RecordKeyValue(Cur(s), encKeys, store.workingKey, key, value,
                                timestamp, s, fault)
        IN /\ store.built
           /\ SessOK(s)
           /\ Return("RecordKeyValue", s, fault,
                     [key |-> key, value |-> value, timestamp |-> timestamp], r)
           /\ written' = IF r.ok
                         THEN Put(written, r.ret.version.id,
                                  [key |-> key, value |-> value,
                                   timestamp |-> timestamp,
                                   record |-> r.ret.record, version |-> r.ret.version])
                         ELSE written
           /\ UNCHANGED <<store, sealed>>

DoListKeyVersions ==
    \E s \in BOOLEAN, key \in Names :
        /\ store.built
        /\ SessOK(s)
        /\ Return("ListKeyVersions", s, "none", key, ListKeyVersions(Cur(s), encKeys, key, s))
        /\ UNCHANGED <<store, written, sealed>>

DoGetValueOfKeyAtVersionID ==
    \E s \in BOOLEAN, v \in VerIds :
        /\ store.built
        /\ SessOK(s)
        /\ Return("GetValueOfKeyAtVersionID", s, "none", v,
                  GetValueOfKeyAtVersionID(Cur(s), encKeys, v, s))
        /\ UNCHANGED <<store, written, sealed>>

DoGetValueOfKeyAtVersion ==
    \E s \in BOOLEAN, v \in DOMAIN written :
        /\ store.built
        /\ SessOK(s)
        /\ Return("GetValueOfKeyAtVersion", s, "none", v,
                  GetValueOfKeyAtVersion(Cur(s), encKeys, written[v].version, s))
        /\ UNCHANGED <<store, written, sealed>>

DoDeleteKey ==
    \E s \in BOOLEAN, fault \in Faults, key \in Names :
        /\ store.built
        /\ SessOK(s)
        /\ Return("DeleteKey", s, fault, key, DeleteKey(Cur(s), encKeys, key, s, fault))
        /\ UNCHANGED <<store, written, sealed>>

(* concurrent engine operations, step by step.  A database round trip     *)
(* returns whatever the other callers' writes allow: an error, or a key   *)
(* in either state; RSADecrypt succeeds or fails with the material.       *)

Move(g, l, rec) ==
    /\ keyCacheLock' = l
    /\ pc' = [pc EXCEPT ![g] = rec]

\* variant: getCachedKey returns without releasing the read lock
getCachedKeyReturnHold(l, g) == l

\* the deferred RUnlock of getCachedKey
getCachedKeyReturn(l, g) == RUnlock(l, g)

\* getCachedKey is entered: RLock returns or parks the goroutine
CallGetCachedKey(g, rec) ==
    LET l == RLock(keyCacheLock, g)
    IN Move(g, l, [rec EXCEPT !.at = IF ReadHeld(l, g) THEN "lookup" ELSE "rwait"])

\* writeKeyToCache, uncacheKey or the tail of DeleteEncryptionKey is
\* entered: Lock returns or parks the goroutine
CallLock(g, rec, act) ==
    LET l == Lock(keyCacheLock, g)
    IN Move(g, l, [rec EXCEPT !.at = IF WriteHeld(l, g) THEN act ELSE "wwait",
                              !.act = act])

\* where the operation goes once a cache access has returned
Continue(rec) ==
    IF rec.op = "ListEncryptionKeys" THEN [rec EXCEPT !.at = "loop", !.act = "none"]
    ELSE IF rec.op = "MarkEncryptionKeyActive" /\ rec.at = "insert"
    THEN [rec EXCEPT !.at = "commit", !.act = "none"]
    ELSE Idle

ListResults == { NewestFirst(S) : S \in SUBSET GoKeys }

GoStart(g) ==
    /\ pc[g].at = "idle"
    /\ \E op \in EngineOps :
          \E k \in IF op \in {"NewEncryptionKey", "ListEncryptionKeys"} THEN {0} ELSE GoKeys :
              Move(g, keyCacheLock, [Idle EXCEPT !.op = op, !.at = "db", !.key = k])
    /\ UNCHANGED <<db, sess, encKeys, store, written, sealed, last>>

\* the ActiveSessionWrapper call of the operation returns
GoDBReturn(g) ==
    /\ pc[g].at = "db"
    /\ \/ Move(g, keyCacheLock, Idle)
       \/ /\ pc[g].op = "NewEncryptionKey"
          /\ \E k \in GoKeys : CallLock(g, [pc[g] EXCEPT !.key = k], "insert")
       \/ /\ pc[g].op = "GetEncryptionKey"
          /\ CallGetCachedKey(g, pc[g])
       \/ /\ pc[g].op = "ListEncryptionKeys"
          /\ \E entries \in ListResults :
                Move(g, keyCacheLock, [pc[g] EXCEPT !.at = "loop", !.rest = entries])
       \/ /\ pc[g].op \in {"MarkEncryptionKeyInactive", "DeleteEncryptionKey"}
          /\ CallLock(g, pc[g], "delete")
    /\ UNCHANGED <<db, sess, encKeys, store, written, sealed, last>>

\* MarkEncryptionKeyActive: the mark and the fetch have returned inside
\* the transaction's callback, cacheKey comes next
GoMarked(g) ==
    /\ pc[g].at = "db"
    /\ pc[g].op = "MarkEncryptionKeyActive"
    /\ Move(g, keyCacheLock, [pc[g] EXCEPT !.at = "unwrap"])
    /\ UNCHANGED <<db, sess, encKeys, store, written, sealed, last>>

\* ListEncryptionKeys: the loop over the listed entries
GoLoop(g) ==
    /\ pc[g].at = "loop"
    /\ IF pc[g].rest = <<>>
       THEN Move(g, keyCacheLock, Idle)
       ELSE LET rec == [pc[g] EXCEPT !.key = Head(pc[g].rest), !.rest = Tail(pc[g].rest)]
            IN \/ CallGetCachedKey(g, rec)
               \/ CallLock(g, rec, "delete")
    /\ UNCHANGED <<db, sess, encKeys, store, written, sealed, last>>

\* a parked reader is admitted by the writer's Unlock
GoAdmit(g) ==
    /\ pc[g].at = "rwait"
    /\ ReadHeld(keyCacheLock, g)
    /\ Move(g, keyCacheLock, [pc[g] EXCEPT !.at = "lookup"])
    /\ UNCHANGED <<db, sess, encKeys, store, written, sealed, last>>

\* getCachedKey: the map lookup and the return
GoLookup(g) ==
    /\ pc[g].at = "lookup"
    /\ Move(g, getCachedKeyReturn(keyCacheLock, g),
            IF pc[g].key \in DOMAIN encKeys
            THEN Continue(pc[g])
            ELSE [pc[g] EXCEPT !.at = "unwrap"])
    /\ UNCHANGED <<db, sess, encKeys, store, written, sealed, last>>

\* cacheKey: RSADecrypt, then writeKeyToCache
GoUnwrap(g) ==
    /\ pc[g].at = "unwrap"
    /\ \/ Move(g, keyCacheLock, Idle)
       \/ CallLock(g, pc[g], "insert")
    /\ UNCHANGED <<db, sess, encKeys, store, written, sealed, last>>

\* a parked writer finds the lock its own
GoAcquire(g) ==
    /\ pc[g].at = "wwait"
    /\ WriteHeld(keyCacheLock, g)
    /\ Move(g, keyCacheLock, [pc[g] EXCEPT !.at = pc[g].act])
    /\ UNCHANGED <<db, sess, encKeys, store, written, sealed, last>>

\* writeKeyToCache: the map insert and the deferred Unlock
GoInsert(g) ==
    /\ pc[g].at = "insert"
    /\ LET plainKey == <<pc[g].key>>
           keyEntry == [id |-> pc[g].key, mat |-> RSAEncrypt(plainKey),
                        state |-> EncryptionKeyStateActive]
       IN encKeys' = writeKeyToCache(encKeys, keyEntry, plainKey)
    /\ Move(g, Unlock(keyCacheLock, g), Continue(pc[g]))
    /\ UNCHANGED <<db, sess, store, written, sealed, last>>

\* uncacheKey and the tail of DeleteEncryptionKey: the map delete and the
\* deferred Unlock
GoDelete(g) ==
    /\ pc[g].at = "delete"
    /\ encKeys' = uncacheKey(encKeys, pc[g].key)
    /\ Move(g, Unlock(keyCacheLock, g), Continue(pc[g]))
    /\ UNCHANGED <<db, sess, store, written, sealed, last>>

\* MarkEncryptionKeyActive: the transaction's callback has returned
GoCommit(g) ==
    /\ pc[g].at = "commit"
    /\ Move(g, keyCacheLock, Idle)
    /\ UNCHANGED <<db, sess, encKeys, store, written, sealed, last>>

GoStep(g) ==
    \/ GoStart(g)
    \/ GoDBReturn(g)
    \/ GoMarked(g)
    \/ GoLoop(g)
    \/ GoAdmit(g)
    \/ GoLookup(g)
    \/ GoUnwrap(g)
    \/ GoAcquire(g)
    \/ GoInsert(g)
    \/ GoDelete(g)
    \/ GoCommit(g)

(* concurrent RecordKeyValue calls, each in a transaction of its own      *)
(* (activeDBClient == nil), statement by statement.  A transaction reads  *)
(* the committed rows and its own; the unique index on records.name makes *)
(* an insert wait for an uncommitted row of the same name and fail on a   *)
(* committed one; a database that admits one writer at a time (sqlite)    *)
(* fails the statement instead ("database is locked").                    *)

NoWrites == [records |-> Empty, versions |-> Empty, events |-> <<>>]

\* the rows a transaction with the uncommitted writes own sees in d
TxView(d, own) ==
    [d EXCEPT !.records = own.records @@ d.records,
              !.versions = own.versions @@ d.versions,
              !.events = d.events \o own.events]

\* the uncommitted writes of a transaction that sees d2 where d is committed
TxWrites(d, d2) ==
    [records |-> [r \in DOMAIN d2.records \ DOMAIN d.records |-> d2.records[r]],
     versions |-> [v \in DOMAIN d2.versions \ DOMAIN d.versions |-> d2.versions[v]],
     events |-> SubSeq(d2.events, Len(d.events) + 1, Len(d2.events))]

InTx(g) == pc[g].at \in {"DefineNewRecord", "EncryptData", "commit"}

\* another transaction holds an uncommitted record row named name
NameLockedNever(g, name) == FALSE

NameLocked(g, name) ==
    \E h \in Goroutines \ {g} :
        /\ InTx(h)
        /\ \E r \in DOMAIN pc[h].own.records : pc[h].own.records[r] = name

\* another transaction has written and not yet ended
OthersWrite(g) ==
    \E h \in Goroutines \ {g} : InTx(h) /\ pc[h].own # NoWrites

\* the transaction of g ends: its callback returned err, or gorm committed
KVEnd(g, ok, ret, d) ==
    /\ pc' = [pc EXCEPT ![g] = Idle]
    /\ last' = [op |-> "RecordKeyValue", ok |-> ok, sess |-> FALSE, fault |-> "none",
                arg |-> [key |-> pc[g].name, value |-> pc[g].value,
                         timestamp |-> pc[g].timestamp, at |-> pc[g].at,
                         own |-> pc[g].own],
                ret |-> ret, tx |-> 1, pre |-> Tables(db), cache |-> encKeys]
    /\ db' = d

\* the transaction opens and GetRecordByName reads
KVLookup(g) ==
    /\ pc[g].at = "idle"
    /\ store.built
    /\ \E key \in Names, value \in Values, timestamp \in Timestamps :
          LET found == GetRecordByName(db, key)
          IN pc' = [pc EXCEPT ![g] =
                       [op |-> "RecordKeyValue",
                        at |-> IF found.ok THEN "EncryptData" ELSE "DefineNewRecord",
                        name |-> key, value |-> value, timestamp |-> timestamp,
                        rec |-> found.ret, own |-> NoWrites]]
    /\ UNCHANGED <<db, sess, encKeys, store, written, sealed, last, keyCacheLock>>

\* DefineNewRecord: the insert and its audit event
KVDefine(g) ==
    /\ pc[g].at = "DefineNewRecord"
    /\ LET r == DefineNewRecord(TxView(db, pc[g].own), pc[g].name, "none")
       IN \/ /\ ~NameLocked(g, pc[g].name)
             /\ r.ok
             /\ InBounds(r.db)
             /\ db' = [db EXCEPT !.nr = r.db.nr]
             /\ pc' = [pc EXCEPT ![g] = [@ EXCEPT !.at = "EncryptData", !.rec = r.ret,
                                                  !.own = TxWrites(db, r.db)]]
             /\ UNCHANGED last
          \/ /\ ~NameLocked(g, pc[g].name)
             /\ ~r.ok
             /\ KVEnd(g, FALSE, Nil, db)
          \/ /\ OthersWrite(g)
             /\ KVEnd(g, FALSE, Nil, db)
    /\ UNCHANGED <<sess, encKeys, store, written, sealed, keyCacheLock>>

\* EncryptData under the working key and DefineNewVersionForRecord
KVWrite(g) ==
    /\ pc[g].at = "EncryptData"
    /\ LET rec == [ok |-> TRUE, db |-> TxView(db, pc[g].own), ret |-> pc[g].rec]
           r == encryptAndRecord(rec, encKeys, store.workingKey.id,
                                 pc[g].value, pc[g].timestamp)
       IN \/ /\ r.ok
             /\ InBounds(r.db)
             /\ db' = [db EXCEPT !.nv = r.db.nv]
             /\ encKeys' = r.cache
             /\ pc' = [pc EXCEPT ![g] = [@ EXCEPT !.at = "commit",
                                                  !.rec = r.ret,
                                                  !.own = TxWrites(db, r.db)]]
             /\ UNCHANGED last
          \/ /\ ~r.ok
             /\ encKeys' = r.cache
             /\ KVEnd(g, FALSE, Nil, db)
          \/ /\ OthersWrite(g)
             /\ encKeys' = encKeys
             /\ KVEnd(g, FALSE, Nil, db)
    /\ UNCHANGED <<sess, store, written, sealed, keyCacheLock>>

\* the callback returned nil: gorm commits
KVCommit(g) ==
    /\ pc[g].at = "commit"
    /\ KVEnd(g, TRUE, pc[g].rec, TxView(db, pc[g].own))
    /\ written' = Put(written, pc[g].rec.version.id,
                      [key |-> pc[g].name, value |-> pc[g].value,
                       timestamp |-> pc[g].timestamp,
                       record |-> pc[g].rec.record, version |-> pc[g].rec.version])
    /\ UNCHANGED <<sess, encKeys, store, sealed, keyCacheLock>>

KVStep(g) ==
    \/ KVLookup(g)
    \/ KVDefine(g)
    \/ KVWrite(g)
    \/ KVCommit(g)

SessionStep ==
    \/ BeginSession
    \/ CommitSession
    \/ RollbackSession

\* the persistence layer, called directly
NextDB ==
    \/ DoRecordEncryptionKey
    \/ DoMarkEncryptionKeyActive
    \/ DoMarkEncryptionKeyInactive
    \/ DoDeleteEncryptionKey
    \/ DoDefineNewRecord
    \/ DoDeleteRecord
    \/ DoDefineNewVersionForRecord
    \/ DoMarkSystemInitializing
    \/ DoMarkSystemInitialized

\* the system-parameter singleton
NextSys ==
    \/ SessionStep
    \/ DoGetSystemParamEntry
    \/ DoMarkSystemInitializing
    \/ DoMarkSystemInitialized
    \/ DoDefineNewRecord
    \/ DoDeleteRecord

\* the protected KV store over the cryptography engine
Next ==
    \/ DoEngineNewEncryptionKey
    \/ DoEngineMarkEncryptionKeyActive
    \/ DoEngineMarkEncryptionKeyInactive
    \/ DoEngineDeleteEncryptionKey
    \/ DoNewProtectedKVStore
    \/ DoRecordKeyValue
    \/ DoGetValueOfKeyAtVersionID
    \/ DoGetValueOfKeyAtVersion
    \/ DoDeleteKey

Spec == Init /\ [][Next]_vars

SpecDB == Init /\ [][NextDB]_vars

SpecSys == Init /\ [][NextSys]_vars

\* the protected KV store called inside and outside a caller's transaction
NextSess ==
    \/ SessionStep
    \/ DoNewProtectedKVStore
    \/ DoRecordKeyValue
    \/ DoListKeyVersions
    \/ DoGetValueOfKeyAtVersionID
    \/ DoGetValueOfKeyAtVersion
    \/ DoDeleteKey

SpecSess == Init /\ [][NextSess]_vars

\* records written through the store and through the persistence layer, with
\* the read operations of both layers
NextRec ==
    \/ DoNewProtectedKVStore
    \/ DoRecordKeyValue
    \/ DoDeleteKey
    \/ DoDefineNewRecord
    \/ DoDeleteRecord
    \/ DoGetRecord
    \/ DoGetRecordVersion
    \/ DoGetEncryptionKey
    \/ DoEngineGetEncryptionKey
    \/ DoEngineListEncryptionKeys

SpecRec == Init /\ [][NextRec]_vars

\* the cryptography engine sealing and unsealing data, directly and for
\* the protected KV store, across key state changes
NextCrypt ==
    \/ DoEngineNewEncryptionKey
    \/ DoEngineMarkEncryptionKeyActive
    \/ DoEngineMarkEncryptionKeyInactive
    \/ DoEngineDeleteEncryptionKey
    \/ DoEncryptData
    \/ DoDecryptData
    \/ DoNewProtectedKVStore
    \/ DoRecordKeyValue
    \/ DoGetValueOfKeyAtVersionID
    \/ DoGetValueOfKeyAtVersion

SpecCrypt == Init /\ [][NextCrypt]_vars

\* sealing and unsealing across key state changes and engine instances
NextInst ==
    \/ DoNewCryptographyEngine
    \/ DoEngineNewEncryptionKey
    \/ DoEngineGetEncryptionKey
    \/ DoEngineMarkEncryptionKeyActive
    \/ DoEngineMarkEncryptionKeyInactive
    \/ DoEncryptData
    \/ DoDecryptData

SpecInst == Init /\ [][NextInst]_vars

\* the cryptography engine called inside and outside a caller's transaction
NextEng ==
    \/ SessionStep
    \/ DoEngineNewEncryptionKey
    \/ DoEngineGetEncryptionKey
    \/ DoEngineListEncryptionKeys
    \/ DoEngineMarkEncryptionKeyActive
    \/ DoEngineMarkEncryptionKeyInactive
    \/ DoEngineDeleteEncryptionKey

SpecEng == Init /\ [][NextEng]_vars

\* the database as the next call sees it
\* key state changes through the engine over keys of any origin: generated
\* by the engine, or recorded in persistence by another writer
NextMark ==
    \/ SessionStep
    \/ DoRecordEncryptionKey
    \/ DoEngineNewEncryptionKey
    \/ DoEngineMarkEncryptionKeyActive
    \/ DoEngineMarkEncryptionKeyInactive
    \/ DoEngineDeleteEncryptionKey

SpecMark == Init /\ [][NextMark]_vars

\* the audit log read back, inside and outside a caller's transaction
NextAudit ==
    \/ SessionStep
    \/ DoListSystemEvents
    \/ DoEngineNewEncryptionKey
    \/ DoDefineNewRecord
    \/ DoDeleteRecord
    \/ DoMarkSystemInitializing

SpecAudit == Init /\ [][NextAudit]_vars

\* the audit log under writes and deletes of the cryptography engine and
\* the protected KV store, and of the persistence layer they call
NextLog ==
    \/ SessionStep
    \/ DoEngineDeleteEncryptionKey
    \/ DoNewProtectedKVStore
    \/ DoRecordKeyValue
    \/ DoDeleteKey

SpecLog == Init /\ [][NextLog]_vars

\* the encryption-key table of the persistence layer: writes, state
\* changes, deletes and the two reads, with and without a caller's
\* transaction
NextKeys ==
    \/ SessionStep
    \/ DoRecordEncryptionKey
    \/ DoGetEncryptionKey
    \/ DoListEncryptionKeys
    \/ DoMarkEncryptionKeyActive
    \/ DoMarkEncryptionKeyInactive
    \/ DoDeleteEncryptionKey

SpecKeys == Init /\ [][NextKeys]_vars

\* goroutines calling the engine concurrently
NextGo == \E g \in Goroutines : GoStep(g)

SpecGo == Init /\ [][NextGo]_vars

\* the Go scheduler runs every runnable goroutine, and every database
\* round trip and RSA operation returns
SpecGoFair == SpecGo /\ \A g \in Goroutines : WF_vars(GoStep(g))

\* ---------------------------------------------------------------------
\* A fetch racing a deactivation on one engine.  GetEncryptionKey and
\* MarkEncryptionKeyInactive run without a caller transaction, each in a
\* goroutine of its own, one statement at a time: the transaction of the
\* call, then the cache accesses, each under keyCacheLock for its whole
\* body.  pc[g] = [op, at, key, entry]; entry is the row the fetch read.

RaceOps == {"Engine.GetEncryptionKey", "Engine.MarkEncryptionKeyInactive"}

Quiet == \A g \in Goroutines : pc[g].at = "idle"

\* the call of g returns
RaceEnd(g, ok, ret) ==
    /\ pc' = [pc EXCEPT ![g] = Idle]
    /\ last' = [op |-> pc[g].op, ok |-> ok, sess |-> FALSE, fault |-> "none",
                arg |-> pc[g].key, ret |-> ret, tx |-> 0, pre |-> Tables(db),
                cache |-> encKeys]

RaceStart(g) ==
    /\ pc[g].at = "idle"
    /\ \E op \in RaceOps, k \in GoKeys :
          pc' = [pc EXCEPT ![g] = [op |-> op, at |-> "db", key |-> k, entry |-> Nil]]
    /\ UNCHANGED <<db, sess, encKeys, store, written, sealed, last, keyCacheLock>>

\* getEncryptionKey: the read of the key row, in a transaction of its own
RaceRead(g) ==
    /\ pc[g].at = "db"
    /\ pc[g].op = "Engine.GetEncryptionKey"
    /\ LET r == GetEncryptionKey(db, pc[g].key)
       IN IF ~r.ok THEN RaceEnd(g, FALSE, Nil)
          ELSE IF r.ret.state # EncryptionKeyStateActive
          THEN RaceEnd(g, TRUE, CacheEntry(r.ret, NoPlain))
          ELSE /\ pc' = [pc EXCEPT ![g].at = "getCachedKey", ![g].entry = r.ret]
               /\ last' = last
    /\ UNCHANGED <<db, sess, encKeys, store, written, sealed, keyCacheLock>>

\* getEncryptionKey: getCachedKey, under the read lock
RaceLookup(g) ==
    /\ pc[g].at = "getCachedKey"
    /\ IF pc[g].key \in DOMAIN encKeys
       THEN RaceEnd(g, TRUE, encKeys[pc[g].key])
       ELSE /\ pc' = [pc EXCEPT ![g].at = "cacheKey"]
            /\ last' = last
    /\ UNCHANGED <<db, sess, encKeys, store, written, sealed, keyCacheLock>>

\* getEncryptionKey: cacheKey of the row read before, writeKeyToCache
\* under the write lock
RaceCacheKey(g) ==
    /\ pc[g].at = "cacheKey"
    /\ LET c == cacheKey(encKeys, pc[g].entry)
       IN /\ encKeys' = c.cache
          /\ RaceEnd(g, c.ok, IF c.ok THEN c.ret ELSE Nil)
    /\ UNCHANGED <<db, sess, store, written, sealed, keyCacheLock>>

\* MarkEncryptionKeyInactive: the transaction that marks and re-reads the
\* key commits, or fails and rolls back
RaceMark(g) ==
    /\ pc[g].at = "db"
    /\ pc[g].op = "Engine.MarkEncryptionKeyInactive"
    /\ \E fault \in Faults :
          LET r == EngineMarkEncryptionKeyInactiveKeepCache(db, encKeys, pc[g].key,
                                                            FALSE, fault)
          IN IF ~r.ok
             THEN /\ RaceEnd(g, FALSE, Nil)
                  /\ db' = r.db
             ELSE /\ pc' = [pc EXCEPT ![g].at = "uncacheKey", ![g].entry = r.ret]
                  /\ db' = r.db
                  /\ last' = last
    /\ UNCHANGED <<sess, encKeys, store, written, sealed, keyCacheLock>>

\* MarkEncryptionKeyInactive: uncacheKey, under the write lock
RaceUncache(g) ==
    /\ pc[g].at = "uncacheKey"
    /\ encKeys' = uncacheKey(encKeys, pc[g].entry.id)
    /\ RaceEnd(g, TRUE, pc[g].entry)
    /\ UNCHANGED <<db, sess, store, written, sealed, keyCacheLock>>

RaceStep(g) ==
    \/ RaceStart(g)
    \/ RaceRead(g)
    \/ RaceLookup(g)
    \/ RaceCacheKey(g)
    \/ RaceMark(g)
    \/ RaceUncache(g)

\* keys are created and reactivated, and the engine is rebuilt over the
\* same database, while no call is in progress
NextFetch ==
    \/ Quiet /\ DoEngineNewEncryptionKey
    \/ Quiet /\ DoEngineMarkEncryptionKeyActive
    \/ Quiet /\ DoNewCryptographyEngine
    \/ \E g \in Goroutines : RaceStep(g)

SpecFetch == Init /\ [][NextFetch]_vars

\* engine calls inside and outside caller transactions: a rollback leaves
\* the cache ahead of the database, and data is then encrypted and
\* decrypted
NextStale ==
    \/ SessionStep
    \/ DoEngineNewEncryptionKey
    \/ DoEngineMarkEncryptionKeyActive
    \/ DoEngineMarkEncryptionKeyInactive
    \/ DoEncryptData
    \/ DoDecryptData

SpecStale == Init /\ [][NextStale]_vars

\* goroutines writing through one store handle, each in its own transaction
NextRace ==
    \/ DoNewProtectedKVStore
    \/ \E g \in Goroutines : KVStep(g)

SpecRace == Init /\ [][NextRace]_vars

View == IF sess.open THEN sess.db ELSE db

----------------------------------------------------------------------------
(* Properties.  last describes the call that has just returned, last.pre  *)
(* the tables and last.cache the engine's cache as that call found them.  *)

KeyActiveIn(t, keyID) ==
    keyID \in DOMAIN t.keys /\ t.keys[keyID].state = EncryptionKeyStateActive

HasEvent(t, eventType) == \E i \in 1..Len(t.events) : t.events[i].type = eventType

KVOps == {"RecordKeyValue", "ListKeyVersions", "GetValueOfKeyAtVersionID",
          "GetValueOfKeyAtVersion", "DeleteKey"}

\* C1: a value written by a successful RecordKeyValue is returned unchanged
\* by a later GetValueOfKeyAtVersionID of the version it produced, whatever
\* was written or toggled in between, as long as the version row still
\* exists and its encryption key exists and is ACTIVE when the read starts.
C1_RoundTrip ==
    ( /\ last.op = "GetValueOfKeyAtVersionID"
      /\ last.arg \in DOMAIN written
      /\ last.arg \in DOMAIN last.pre.versions
      /\ KeyActiveIn(last.pre, written[last.arg].version.enc_key_id) )
    => /\ last.ok
       /\ last.ret = written[last.arg].value

\* the first version is read back after a second write and after its key
\* was deactivated and activated again
C1_Witness ==
    /\ last.op = "GetValueOfKeyAtVersionID"
    /\ last.arg = 1
    /\ 2 \in DOMAIN written
    /\ HasEvent(last.pre, SystemEventTypeDeactivateEncryptionKey)
    /\ last.ok
    /\ last.ret = "value1"

\* C2: the store's working key is the one fixed at construction: every
\* version the store wrote is encrypted under it, and a RecordKeyValue that
\* finds it INACTIVE or deleted fails, other ACTIVE keys notwithstanding.
C2_WorkingKeyFixed ==
    /\ store.built =>
          \A v \in DOMAIN written :
              written[v].version.enc_key_id = store.workingKey.id
    /\ last.op = "RecordKeyValue" =>
          /\ last.ok => last.ret.version.enc_key_id = store.workingKey.id
          /\ ~KeyActiveIn(last.pre, store.workingKey.id) => ~last.ok

\* a write fails on the unusable working key while another key is ACTIVE
C2_Witness ==
    /\ last.op = "RecordKeyValue"
    /\ last.fault = "none"
    /\ ~last.ok
    /\ ~KeyActiveIn(last.pre, store.workingKey.id)
    /\ \E k \in DOMAIN last.pre.keys :
          k # store.workingKey.id /\ KeyActiveIn(last.pre, k)

\* C3: a RecordKeyValue called without a caller transaction that fails at
\* any step leaves the tables as it found them: no record, no version and
\* no ADD_NEW_RECORD event survive.
C3_FailedWriteRolledBack ==
    (last.op = "RecordKeyValue" /\ ~last.sess /\ ~last.ok)
    => /\ Tables(db) = last.pre
       /\ last.ret = Nil

\* the name was new, the record and its event were written, and encryption
\* then refused the INACTIVE working key
C3_Witness ==
    /\ last.op = "RecordKeyValue"
    /\ ~last.sess
    /\ ~last.ok
    /\ last.fault = "none"
    /\ ~NameTaken(last.pre, last.arg.key)
    /\ store.workingKey.id \in DOMAIN last.pre.keys
    /\ ~KeyActiveIn(last.pre, store.workingKey.id)
    /\ Tables(db) = last.pre

AuditedOps ==
    {"RecordEncryptionKey", "MarkEncryptionKeyActive", "MarkEncryptionKeyInactive",
     "DeleteEncryptionKey", "DefineNewRecord", "DeleteRecord",
     "MarkSystemInitializing", "MarkSystemInitialized"}

EventTypeOf(op) ==
    CASE op = "RecordEncryptionKey" -> SystemEventTypeNewEncryptionKey
      [] op = "MarkEncryptionKeyActive" -> SystemEventTypeActivateEncryptionKey
      [] op = "MarkEncryptionKeyInactive" -> SystemEventTypeDeactivateEncryptionKey
      [] op = "DeleteEncryptionKey" -> SystemEventTypeDeleteEncryptionKey
      [] op = "DefineNewRecord" -> SystemEventTypeAddNewRecord
      [] op = "DeleteRecord" -> SystemEventTypeDeleteRecord
      [] op = "MarkSystemInitializing" -> SystemEventTypeInitializing
      [] op = "MarkSystemInitialized" -> SystemEventTypeInitialized

\* the audited rows of a table snapshot
Entities(t) == [keys |-> t.keys, records |-> t.records, versions |-> t.versions,
                sys |-> t.sys]

HasKeyEvent(t, eventType, keyID) ==
    \E i \in 1..Len(t.events) :
        /\ t.events[i].type = eventType
        /\ t.events[i].meta = SystemEventEncKeyRelated(keyID)

HasRecordEvent(t, eventType, recordID) ==
    \E i \in 1..Len(t.events) :
        /\ t.events[i].type = eventType
        /\ "record_id" \in DOMAIN t.events[i].meta
        /\ t.events[i].meta.record_id = recordID

\* C4: an audited persistence operation run in a transaction commits its
\* mutation and its audit event together or not at all: the rows change
\* exactly when one event of the operation's type is appended, a failed
\* operation (a failed audit insert included) leaves every table as it was,
\* and in every committed state a row is present exactly when the events
\* that account for it are.
C4_MutationAndEventTogether ==
    /\ (last.op \in AuditedOps /\ ~last.sess) =>
          LET post == Tables(db)
          IN /\ (Entities(post) # Entities(last.pre)) <=> (post.events # last.pre.events)
             /\ post.events # last.pre.events =>
                   /\ last.ok
                   /\ Len(post.events) = Len(last.pre.events) + 1
                   /\ SubSeq(post.events, 1, Len(last.pre.events)) = last.pre.events
                   /\ post.events[Len(post.events)].type = EventTypeOf(last.op)
             /\ ~last.ok => post = last.pre
    /\ \A k \in KeyIds :
          k \in DOMAIN db.keys <=>
             /\ HasKeyEvent(db, SystemEventTypeNewEncryptionKey, k)
             /\ ~HasKeyEvent(db, SystemEventTypeDeleteEncryptionKey, k)
    /\ \A r \in RecIds :
          r \in DOMAIN db.records <=>
             /\ HasRecordEvent(db, SystemEventTypeAddNewRecord, r)
             /\ ~HasRecordEvent(db, SystemEventTypeDeleteRecord, r)
    /\ db.sys \in {SystemStateInit, SystemStateRunning}
          <=> HasEvent(db, SystemEventTypeInitializing)
    /\ db.sys = SystemStateRunning <=> HasEvent(db, SystemEventTypeInitialized)

\* the delete of an existing record is undone by the failed audit insert
C4_Witness ==
    /\ last.op = "DeleteRecord"
    /\ ~last.sess
    /\ last.fault = "audit"
    /\ last.arg \in DOMAIN last.pre.records
    /\ \E v \in DOMAIN last.pre.versions : last.pre.versions[v].record_id = last.arg
    /\ ~last.ok
    /\ Tables(db) = last.pre

\* C5: every KV-store operation uses exactly one transaction when it is
\* called without a caller transaction, and none of its own when it is
\* given one.
C5_OneTransaction ==
    last.op \in KVOps => last.tx = (IF last.sess THEN 0 ELSE 1)

\* a read by version id without a caller transaction came back having
\* opened two transactions: one for the version row, one for the key row
C5_TwoTransactions ==
    /\ last.op = "GetValueOfKeyAtVersionID"
    /\ ~last.sess
    /\ last.ok
    /\ last.tx = 2

\* C6: after a committed DeleteRecord of r, GetRecordVersion fails for every
\* version that belonged to r and still returns every other version.
C6_DeleteRecordCascades ==
    (last.op = "DeleteRecord" /\ ~last.sess /\ last.ok) =>
        \A v \in DOMAIN last.pre.versions :
            IF last.pre.versions[v].record_id = last.arg
            THEN ~GetRecordVersion(db, v).ok
            ELSE /\ GetRecordVersion(db, v).ok
                 /\ GetRecordVersion(db, v).ret = VersionOf(last.pre, v)

\* the deleted record had a version and so had another record
C6_Witness ==
    /\ last.op = "DeleteRecord"
    /\ ~last.sess
    /\ last.ok
    /\ \E v \in DOMAIN last.pre.versions : last.pre.versions[v].record_id = last.arg
    /\ \E v \in DOMAIN last.pre.versions : last.pre.versions[v].record_id # last.arg

\* C7: after a committed DeleteEncryptionKey of k, whatever k's state was,
\* GetEncryptionKey(k) fails, GetRecordVersion fails for every version
\* encrypted under k, and every other key and version is still returned.
C7_DeleteKeyCascades ==
    (last.op = "DeleteEncryptionKey" /\ ~last.sess /\ last.ok) =>
        /\ ~GetEncryptionKey(db, last.arg).ok
        /\ \A k \in DOMAIN last.pre.keys \ {last.arg} :
              /\ GetEncryptionKey(db, k).ok
              /\ GetEncryptionKey(db, k).ret = KeyEntry(last.pre, k)
        /\ \A v \in DOMAIN last.pre.versions :
              IF last.pre.versions[v].enc_key_id = last.arg
              THEN ~GetRecordVersion(db, v).ok
              ELSE /\ GetRecordVersion(db, v).ok
                   /\ GetRecordVersion(db, v).ret = VersionOf(last.pre, v)

\* an ACTIVE key with a version is deleted while another key has one too
C7_Witness ==
    /\ last.op = "DeleteEncryptionKey"
    /\ ~last.sess
    /\ last.ok
    /\ KeyActiveIn(last.pre, last.arg)
    /\ \E v \in DOMAIN last.pre.versions : last.pre.versions[v].enc_key_id = last.arg
    /\ \E v \in DOMAIN last.pre.versions : last.pre.versions[v].enc_key_id # last.arg

\* C8: DefineNewRecord of a name a live record holds fails, creates nothing
\* and emits no event; no two live records ever share a name.
C8_NameUnique ==
    /\ (last.op = "DefineNewRecord" /\ NameTaken(last.pre, last.arg)) =>
          /\ ~last.ok
          /\ Tables(View) = last.pre
    /\ \A r1, r2 \in DOMAIN View.records :
          View.records[r1] = View.records[r2] => r1 = r2

\* the name was taken and nothing else stood in the call's way
C8_Witness ==
    /\ last.op = "DefineNewRecord"
    /\ last.fault = "none"
    /\ NameTaken(last.pre, last.arg)
    /\ ~last.ok

\* the record an operation created for a name that was free
CreatedRecord ==
    IF last.op = "DefineNewRecord" THEN last.ret ELSE last.ret.record

CreatedName == IF last.op = "DefineNewRecord" THEN last.arg ELSE last.arg.key

\* C9: once a record is deleted its name is free again: DefineNewRecord or
\* RecordKeyValue of a free name succeeds (nothing else failing) with an id
\* no earlier record had; the new record has no version of an old record;
\* a deleted record's id is never retrievable again.
C9_NameReusableIdFresh ==
    /\ ( /\ last.op \in {"DefineNewRecord", "RecordKeyValue"}
         /\ ~last.sess
         /\ last.fault = "none"
         /\ ~NameTaken(last.pre, CreatedName)
         /\ last.op = "RecordKeyValue" => KeyActiveIn(last.pre, store.workingKey.id) )
       => /\ last.ok
          /\ CreatedRecord.name = CreatedName
          /\ GetRecord(db, CreatedRecord.id).ok
          /\ ~HasRecordEvent(last.pre, SystemEventTypeAddNewRecord, CreatedRecord.id)
          /\ \A v \in DOMAIN db.versions :
                db.versions[v].record_id = CreatedRecord.id =>
                   /\ v \notin DOMAIN last.pre.versions
                   /\ last.op = "RecordKeyValue"
                   /\ v = last.ret.version.id
    /\ \A r \in RecIds :
          HasRecordEvent(db, SystemEventTypeDeleteRecord, r) => ~GetRecord(db, r).ok

\* a name whose record was deleted, together with a version written to it,
\* is defined again
C9_Witness ==
    /\ last.op = "DefineNewRecord"
    /\ last.ok
    /\ \E i \in 1..Len(last.pre.events) :
          /\ last.pre.events[i].type = SystemEventTypeDeleteRecord
          /\ last.pre.events[i].meta.record_name = last.arg
          /\ last.pre.events[i].meta.record_id # last.ret.id
          /\ \E v \in DOMAIN written :
                written[v].record.id = last.pre.events[i].meta.record_id

\* the state GetSystemParamEntry reports for a system_params table
SystemStateOf(t) == IF t.sys = Absent THEN SystemStatePreInit ELSE t.sys

\* C10: MarkSystemInitializing in RUNNING and MarkSystemInitialized in
\* PRE_INITIALIZATION return an error; the system state and the audit log
\* are what they were, and without a caller transaction so is every table.
C10_ForbiddenTransitions ==
    ( \/ /\ last.op = "MarkSystemInitializing"
         /\ SystemStateOf(last.pre) = SystemStateRunning
      \/ /\ last.op = "MarkSystemInitialized"
         /\ SystemStateOf(last.pre) = SystemStatePreInit )
    => /\ ~last.ok
       /\ SystemStateOf(View) = SystemStateOf(last.pre)
       /\ View.events = last.pre.events
       /\ ~last.sess => Tables(db) = last.pre

\* RUNNING was reached and MarkSystemInitializing was then refused
C10_Witness ==
    /\ last.op = "MarkSystemInitializing"
    /\ last.fault = "none"
    /\ last.pre.sys = SystemStateRunning
    /\ ~last.ok
    /\ View.sys = SystemStateRunning

\* position of a system state along PRE_INITIALIZATION -> INITIALIZING -> RUNNING
Rank(state) ==
    CASE state = SystemStatePreInit -> 0
      [] state = SystemStateInit -> 1
      [] state = SystemStateRunning -> 2

EventCount(t, eventType) ==
    Cardinality({i \in 1..Len(t.events) : t.events[i].type = eventType})

MarkTarget(op) ==
    IF op = "MarkSystemInitializing" THEN SystemStateInit ELSE SystemStateRunning

C11_State ==
    /\ last.op \in {"MarkSystemInitializing", "MarkSystemInitialized"} =>
          /\ Rank(SystemStateOf(View)) >= Rank(SystemStateOf(last.pre))
          /\ Rank(SystemStateOf(View)) <= Rank(SystemStateOf(last.pre)) + 1
          /\ SystemStateOf(last.pre) = MarkTarget(last.op) =>
                /\ last.ok
                /\ View.events = last.pre.events
                /\ SystemStateOf(View) = SystemStateOf(last.pre)
    /\ \A t \in {Tables(db), Tables(View)} :
          /\ EventCount(t, SystemEventTypeInitializing) <= 1
          /\ EventCount(t, SystemEventTypeInitialized) <= 1
          /\ \A i \in 1..Len(t.events) :
                t.events[i].type = SystemEventTypeInitialized =>
                   \E j \in 1..(i - 1) : t.events[j].type = SystemEventTypeInitializing

C11_Step == Rank(SystemStateOf(db')) >= Rank(SystemStateOf(db))

\* C11: the system state only moves forward along PRE_INITIALIZATION ->
\* INITIALIZING -> RUNNING: the committed state never moves back and no mark
\* call moves the state it sees back or by more than one step; a mark call
\* whose target is the current state succeeds and appends no event; the log
\* holds at most one SYSTEM_INITIALIZING and at most one SYSTEM_INITIALIZED
\* event, SYSTEM_INITIALIZING first.
C11_ForwardOnly == []C11_State /\ [][C11_Step]_vars

\* RUNNING was reached through both events and MarkSystemInitialized is
\* called once more, with an audit insert that would fail if attempted
C11_Witness ==
    /\ last.op = "MarkSystemInitialized"
    /\ last.fault = "audit"
    /\ last.pre.sys = SystemStateRunning
    /\ last.ok
    /\ EventCount(View, SystemEventTypeInitializing) = 1
    /\ EventCount(View, SystemEventTypeInitialized) = 1

\* C12: GetSystemParamEntry returns the row with id "system-parameters": an
\* absent row is created in PRE_INITIALIZATION with no audit event, a
\* present row is returned with its state and no table changes.
C12_Singleton ==
    last.op = "GetSystemParamEntry" =>
        /\ last.ok
        /\ last.ret = [id |-> GlobalSystemParamEntryID,
                       state |-> SystemStateOf(last.pre)]
        /\ View.sys = SystemStateOf(last.pre)
        /\ [Tables(View) EXCEPT !.sys = last.pre.sys] = last.pre

\* the row was absent and the call, made without a caller transaction,
\* committed it in PRE_INITIALIZATION
C12_Witness ==
    /\ last.op = "GetSystemParamEntry"
    /\ ~last.sess
    /\ last.pre.sys = Absent
    /\ last.ok
    /\ db.sys = SystemStatePreInit
    /\ db.events = last.pre.events

KeyMarkTarget(op) ==
    IF op = "MarkEncryptionKeyActive"
    THEN EncryptionKeyStateActive ELSE EncryptionKeyStateInactive

\* positions of the ACTIVATE / DEACTIVATE events of key keyID
ToggleEvents(t, keyID) ==
    {i \in 1..Len(t.events) :
        /\ t.events[i].type \in {SystemEventTypeActivateEncryptionKey,
                                 SystemEventTypeDeactivateEncryptionKey}
        /\ t.events[i].meta = SystemEventEncKeyRelated(keyID)}

\* C13: MarkEncryptionKeyActive / MarkEncryptionKeyInactive on an existing
\* key: a call whose target is the key's state succeeds and leaves every
\* table as it was; a call that changes the state appends exactly one
\* ACTIVATE or DEACTIVATE event with the key's id and changes nothing else.
\* The ACTIVATE / DEACTIVATE events of a key alternate, DEACTIVATE first.
C13_KeyToggle ==
    /\ ( /\ last.op \in {"MarkEncryptionKeyActive", "MarkEncryptionKeyInactive"}
         /\ ~last.sess
         /\ last.arg \in DOMAIN last.pre.keys ) =>
          LET k == last.arg
              target == KeyMarkTarget(last.op)
              post == Tables(db)
          IN IF last.pre.keys[k].state = target
             THEN last.ok /\ post = last.pre
             ELSE IF last.ok
             THEN /\ post.events =
                        Append(last.pre.events,
                               [type |-> EventTypeOf(last.op),
                                meta |-> SystemEventEncKeyRelated(k)])
                  /\ post.keys = [last.pre.keys EXCEPT ![k].state = target]
                  /\ [post EXCEPT !.events = last.pre.events, !.keys = last.pre.keys]
                        = last.pre
             ELSE post = last.pre
    /\ \A k \in KeyIds :
          LET S == ToggleEvents(db, k)
          IN \A i \in S :
                db.events[i].type =
                   IF \A j \in S : i <= j
                   THEN SystemEventTypeDeactivateEncryptionKey
                   ELSE LET prev == CHOOSE j \in S :
                                       j < i /\ \A m \in S : m < i => m <= j
                        IN IF db.events[prev].type = SystemEventTypeActivateEncryptionKey
                           THEN SystemEventTypeDeactivateEncryptionKey
                           ELSE SystemEventTypeActivateEncryptionKey

\* a key deactivated and activated before is deactivated again
C13_Witness ==
    /\ last.op = "MarkEncryptionKeyInactive"
    /\ last.ok
    /\ last.arg \in DOMAIN last.pre.keys
    /\ Cardinality(ToggleEvents(last.pre, last.arg)) = 2
    /\ Cardinality(ToggleEvents(db, last.arg)) = 3

\* the cache holds an entry for exactly the keys that are ACTIVE in d
Coherent(d, cache) ==
    \A k \in KeyIds : k \in DOMAIN cache <=> KeyActiveIn(d, k)

\* C14: cache/DB coherence: whenever no engine operation and no caller
\* transaction is in progress, and every key mutation went through the
\* engine, a key has a cache entry if and only if it exists in persistence
\* with state ACTIVE.
C14_CacheCoherent == ~sess.open => Coherent(db, encKeys)

\* a caller transaction that an engine call had joined was rolled back and
\* the cache still holds the plaintext of a key that is not ACTIVE in the
\* committed database
C14_StaleAfterRollback ==
    /\ last.op = "RollbackSession"
    /\ ~sess.open
    /\ \E k \in DOMAIN encKeys : ~KeyActiveIn(db, k)

CryptOps == {"Engine.EncryptData", "Engine.DecryptData",
             "GetValueOfKeyAtVersionID", "GetValueOfKeyAtVersion"}

\* C15: EncryptData and DecryptData succeed only when the key exists and is
\* ACTIVE as the call starts, and then its plaintext is in the cache; a
\* read of a stored version (by id, or by a version entry the caller
\* holds) fails when the version's key is INACTIVE or gone; a failed call
\* returns the zero value, neither ciphertext nor plaintext.
C15_UsableKeyOnly ==
    /\ ( last.op \in {"Engine.EncryptData", "Engine.DecryptData"} /\ last.ok )
       => /\ KeyActiveIn(last.pre, last.arg.key)
          /\ last.arg.key \in DOMAIN encKeys
          /\ Len(encKeys[last.arg.key].plain) > 0
    /\ ( /\ last.op = "GetValueOfKeyAtVersionID"
         /\ \/ last.arg \notin DOMAIN last.pre.versions
            \/ ~KeyActiveIn(last.pre, last.pre.versions[last.arg].enc_key_id) )
       => ~last.ok
    /\ ( /\ last.op = "GetValueOfKeyAtVersion"
         /\ ~KeyActiveIn(last.pre, written[last.arg].version.enc_key_id) )
       => ~last.ok
    /\ ( last.op \in CryptOps /\ ~last.ok ) => last.ret = Nil

\* a version entry the caller still holds is refused after its key was
\* deleted
C15_Witness ==
    /\ last.op = "GetValueOfKeyAtVersion"
    /\ written[last.arg].version.enc_key_id \notin DOMAIN last.pre.keys
    /\ ~last.ok
    /\ last.ret = Nil

\* the key with this id was deactivated and later activated again after the
\* audit log had n events
ToggledSince(t, keyID, n) ==
    \E i, j \in 1..Len(t.events) :
        /\ n < i /\ i < j
        /\ t.events[i].type = SystemEventTypeDeactivateEncryptionKey
        /\ t.events[i].meta = SystemEventEncKeyRelated(keyID)
        /\ t.events[j].type = SystemEventTypeActivateEncryptionKey
        /\ t.events[j].meta = SystemEventEncKeyRelated(keyID)

\* C16: data sealed by EncryptData under key k is unsealed to the original
\* plaintext by every DecryptData under k that finds k ACTIVE, whatever
\* happened to the cache in between (the key deactivated and activated
\* again, or a new engine instance with an empty cache): the cached
\* plaintext of a key is always the key NewEncryptionKey generated for it.
C16_SealUnseal ==
    /\ ( /\ last.op = "Engine.DecryptData"
         /\ last.arg.key = last.arg.sealed.key
         /\ KeyActiveIn(last.pre, last.arg.key) )
       => /\ last.ok
          /\ last.ret = last.arg.sealed.plainText
    /\ \A k \in DOMAIN encKeys :
          /\ encKeys[k].plain = <<k>>
          /\ RSAEncrypt(encKeys[k].plain) = encKeys[k].mat

\* the data is unsealed after its key was deactivated and activated again
\* and by an engine instance that had to unwrap the key for this call
C16_Witness ==
    /\ last.op = "Engine.DecryptData"
    /\ last.arg.key = last.arg.sealed.key
    /\ ToggledSince(last.pre, last.arg.key, last.arg.sealed.at)
    /\ last.arg.key \notin DOMAIN last.cache
    /\ last.ok
    /\ last.ret = last.arg.sealed.plainText

ActiveKeysIn(t) == {k \in DOMAIN t.keys : KeyActiveIn(t, k)}

\* C17: NewProtectedKVStore runs in one transaction.  When an ACTIVE key
\* exists as it starts, the working key is the newest ACTIVE key and the
\* tables are left as they were; when none exists (no key at all, or only
\* INACTIVE ones), exactly one key is added, ACTIVE, with exactly one
\* ADD_NEW_ENCRYPTION_KEY event, its plaintext is cached and it is the
\* working key.  After a successful construction the working key is in
\* persistence with state ACTIVE.
C17_WorkingKeySelection ==
    last.op = "NewProtectedKVStore" =>
       /\ last.tx = 1
       /\ last.ok =>
             /\ store.built /\ store.workingKey = last.ret
             /\ KeyActiveIn(db, last.ret.id)
             /\ db.keys[last.ret.id].mat = last.ret.mat
             /\ last.ret.state = EncryptionKeyStateActive
       /\ ( last.ok /\ ActiveKeysIn(last.pre) # {} ) =>
             /\ last.ret.id \in ActiveKeysIn(last.pre)
             /\ \A k \in ActiveKeysIn(last.pre) : k <= last.ret.id
             /\ Tables(db) = last.pre
       /\ ( last.ok /\ ActiveKeysIn(last.pre) = {} ) =>
             /\ last.ret.id \notin DOMAIN last.pre.keys
             /\ DOMAIN db.keys = DOMAIN last.pre.keys \cup {last.ret.id}
             /\ \A k \in DOMAIN last.pre.keys : db.keys[k] = last.pre.keys[k]
             /\ db.events = Append(last.pre.events,
                                   [type |-> SystemEventTypeNewEncryptionKey,
                                    meta |-> SystemEventEncKeyRelated(last.ret.id)])
             /\ last.ret.id \in DOMAIN encKeys
             /\ RSAEncrypt(encKeys[last.ret.id].plain) = last.ret.mat

\* only an INACTIVE key exists: the store is built on a key of its own
C17_Witness ==
    /\ last.op = "NewProtectedKVStore"
    /\ last.ok
    /\ DOMAIN last.pre.keys # {}
    /\ ActiveKeysIn(last.pre) = {}
    /\ last.ret.id \notin DOMAIN last.pre.keys
    /\ KeyActiveIn(db, last.ret.id)

Listed(keyEntries) == {keyEntries[i].id : i \in 1..Len(keyEntries)}

C19_MarkActiveCaches ==
    last.op = "Engine.MarkEncryptionKeyActive" =>
       /\ last.ok =>
             /\ KeyActiveIn(View, last.arg)
             /\ last.ret = KeyEntry(View, last.arg)
             /\ last.ret.state = EncryptionKeyStateActive
             /\ last.arg \in DOMAIN encKeys
             /\ EntryOf(encKeys[last.arg]) = last.ret
             /\ RSADecrypt(last.ret.mat).ok
             /\ encKeys[last.arg].plain = RSADecrypt(last.ret.mat).key
       /\ ( /\ last.arg \in DOMAIN last.pre.keys
            /\ ~RSADecrypt(last.pre.keys[last.arg].mat).ok ) =>
             /\ ~last.ok
             /\ last.ret = Nil
             /\ encKeys = last.cache
             /\ IF last.sess THEN sess.open /\ sess.failed
                             ELSE Tables(db) = last.pre

\* an INACTIVE key is activated and its plaintext enters the cache
C19_Witness ==
    /\ last.op = "Engine.MarkEncryptionKeyActive"
    /\ last.ok
    /\ last.arg \in DOMAIN last.pre.keys
    /\ last.pre.keys[last.arg].state = EncryptionKeyStateInactive
    /\ last.arg \notin DOMAIN last.cache
    /\ last.arg \in DOMAIN encKeys
    /\ KeyActiveIn(View, last.arg)

\* C20: after a successful MarkEncryptionKeyInactive or DeleteEncryptionKey
\* of the engine the cache holds no entry for the key;
\* MarkEncryptionKeyInactive returns the row as it is after the transition,
\* state INACTIVE; when the call fails the cache entry of the key is as the
\* call found it.
C20_InactiveAndDeleteEvict ==
    last.op \in {"Engine.MarkEncryptionKeyInactive", "Engine.DeleteEncryptionKey"} =>
       /\ last.ok => last.arg \notin DOMAIN encKeys
       /\ ( last.ok /\ last.op = "Engine.MarkEncryptionKeyInactive" ) =>
             /\ last.arg \in DOMAIN View.keys
             /\ last.ret = KeyEntry(View, last.arg)
             /\ last.ret.state = EncryptionKeyStateInactive
       /\ ~last.ok =>
             /\ last.arg \in DOMAIN encKeys <=> last.arg \in DOMAIN last.cache
             /\ last.arg \in DOMAIN encKeys => encKeys[last.arg] = last.cache[last.arg]

\* a cached ACTIVE key is deactivated and leaves the cache
C20_Witness ==
    /\ last.op = "Engine.MarkEncryptionKeyInactive"
    /\ last.ok
    /\ KeyActiveIn(last.pre, last.arg)
    /\ last.arg \in DOMAIN last.cache
    /\ last.arg \notin DOMAIN encKeys

IsWrapped(material) == "wrapped" \in DOMAIN material

\* what the tables hold besides ids, names, states and timestamps
OnlyProtectedBytes(t) ==
    /\ \A k \in DOMAIN t.keys : IsWrapped(t.keys[k].mat)
    /\ \A v \in DOMAIN t.versions :
          /\ DOMAIN t.versions[v].enc_value = {"k", "n", "p"}
          /\ t.versions[v].enc_nonce = t.versions[v].enc_value.n
    /\ \A i \in 1..Len(t.events) :
          DOMAIN t.events[i].meta \subseteq {"key_id", "record_id", "record_name", "none"}

\* C21: the plaintext of a key generated by the engine is never persisted:
\* in every state the material of every key row is the RSA-wrapped form of
\* the key (the wrap of the plaintext the cache holds for it, never the
\* plaintext bytes), the version rows hold sealed values and their nonces,
\* the audit events hold ids and names; the plaintext is in the cache only.
C21_PlaintextNeverPersisted ==
    /\ OnlyProtectedBytes(db)
    /\ OnlyProtectedBytes(View)
    /\ \A k \in DOMAIN encKeys \cap DOMAIN View.keys :
          /\ View.keys[k].mat = RSAEncrypt(encKeys[k].plain)
          /\ View.keys[k].mat # Raw(encKeys[k].plain)

\* a value was written under a key whose plaintext is cached
C21_Witness ==
    /\ last.op = "RecordKeyValue"
    /\ last.ok
    /\ last.ret.version.enc_key_id \in DOMAIN encKeys
    /\ last.ret.version.enc_key_id \in DOMAIN db.keys
    /\ Len(encKeys[last.ret.version.enc_key_id].plain) > 0
    /\ DOMAIN db.versions # {}

NoDanglingVersion(t) ==
    \A v \in DOMAIN t.versions :
        /\ t.versions[v].record_id \in DOMAIN t.records
        /\ t.versions[v].enc_key_id \in DOMAIN t.keys

\* C22: DefineNewVersionForRecord succeeds exactly when the record id and
\* the key id it is given both have a row, and a failed call adds no
\* version; in every state, committed or inside a transaction, the record
\* and the key of every version row exist.
C22_VersionNeedsParents ==
    /\ last.op = "DefineNewVersionForRecord" =>
          /\ last.ok <=> ( /\ last.arg.record \in DOMAIN last.pre.records
                           /\ last.arg.key \in DOMAIN last.pre.keys )
          /\ ~last.ok => View.versions = last.pre.versions
          /\ last.ok =>
                /\ last.ret.id \notin DOMAIN last.pre.versions
                /\ last.ret.id \in DOMAIN View.versions
                /\ last.ret.record_id = last.arg.record
                /\ last.ret.enc_key_id = last.arg.key
    /\ NoDanglingVersion(db)
    /\ NoDanglingVersion(View)

\* a version is refused for a record whose key was deleted, after the
\* delete took the key's earlier version with it
C22_Witness ==
    /\ last.op = "DefineNewVersionForRecord"
    /\ ~last.ok
    /\ last.arg.record \in DOMAIN last.pre.records
    /\ last.arg.key \notin DOMAIN last.pre.keys
    /\ HasKeyEvent(last.pre, SystemEventTypeDeleteEncryptionKey, last.arg.key)
    /\ last.pre.versions = Empty
    /\ db.nv > 0

\* C23: ListKeyVersions of a name fails, returning the zero value, when no
\* live record has the name as the call starts (never written, or deleted
\* and not written again); otherwise it returns the live record of that
\* name and exactly the versions whose record_id is that record's id.
C23_ListKeyVersions ==
    last.op = "ListKeyVersions" =>
       /\ last.ok <=> NameTaken(last.pre, last.arg)
       /\ ~last.ok => last.ret = Nil
       /\ last.ok =>
             /\ last.ret.record.id \in DOMAIN last.pre.records
             /\ last.pre.records[last.ret.record.id] = last.arg
             /\ last.ret.record.name = last.arg
             /\ last.ret.versions =
                   {VersionOf(last.pre, v) :
                       v \in {x \in DOMAIN last.pre.versions :
                                last.pre.versions[x].record_id = last.ret.record.id}}
             /\ \A w \in DOMAIN written :
                   ( /\ w \in DOMAIN last.pre.versions
                     /\ written[w].record.id = last.ret.record.id )
                   <=> written[w].version \in last.ret.versions

\* the name was written, deleted and written again: the listing returns
\* the new record with its version and not the version of the old one
C23_Witness ==
    /\ last.op = "ListKeyVersions"
    /\ last.ok
    /\ last.ret.versions # {}
    /\ \E w \in DOMAIN written :
          /\ written[w].key = last.arg
          /\ written[w].record.id # last.ret.record.id
          /\ HasRecordEvent(last.pre, SystemEventTypeDeleteRecord, written[w].record.id)
          /\ written[w].version \notin last.ret.versions

RecordNamed(t, name) == CHOOSE r \in DOMAIN t.records : t.records[r] = name

\* the tables t without record recordID and its versions, and with event
AfterDelete(t, recordID, event) ==
    [t EXCEPT !.records = Drop(@, recordID),
              !.versions = [v \in {x \in DOMAIN @ : @[x].record_id # recordID} |-> @[v]],
              !.events = Append(@, event)]

\* C24: DeleteKey of a name a live record holds, when it succeeds, removes
\* that record and all its versions, leaves every other row as it was and
\* appends exactly one DELETE_RECORD event carrying the record's id and
\* name; it succeeds unless the audit insert fails.  DeleteKey of a name no
\* live record holds fails, deletes nothing and appends no event.
C24_DeleteKey ==
    last.op = "DeleteKey" =>
       /\ ~NameTaken(last.pre, last.arg) =>
             /\ ~last.ok
             /\ Tables(View) = last.pre
       /\ ( NameTaken(last.pre, last.arg) /\ last.fault = "none" ) => last.ok
       /\ last.ok =>
             /\ NameTaken(last.pre, last.arg)
             /\ Tables(View) =
                   AfterDelete(last.pre, RecordNamed(last.pre, last.arg),
                               [type |-> SystemEventTypeDeleteRecord,
                                meta |-> [record_id |-> RecordNamed(last.pre, last.arg),
                                          record_name |-> last.arg]])
             /\ ~NameTaken(View, last.arg)

\* a key with a version is deleted while another key has a version too
C24_Witness ==
    /\ last.op = "DeleteKey"
    /\ last.ok
    /\ \E v \in DOMAIN last.pre.versions :
          last.pre.versions[v].record_id = RecordNamed(last.pre, last.arg)
    /\ DOMAIN View.versions # {}
    /\ DOMAIN View.versions # DOMAIN last.pre.versions

\* C25: a successful RecordKeyValue of a name no live record holds creates
\* exactly one record and appends exactly one ADD_NEW_RECORD event; of a
\* name a live record holds it uses that record, appends no event, and so
\* succeeds whenever the working key is usable, even when no audit event
\* could be written.  In both cases exactly one version is added, under
\* that record, the other rows are as they were, and every version of the
\* name has the same record_id.
C25_ResolveOrCreate ==
    last.op = "RecordKeyValue" =>
       /\ ( NameTaken(last.pre, last.arg.key)
            /\ KeyActiveIn(last.pre, store.workingKey.id) ) => last.ok
       /\ last.ok =>
             /\ View.keys = last.pre.keys
             /\ last.ret.version.id \notin DOMAIN last.pre.versions
             /\ DOMAIN View.versions = DOMAIN last.pre.versions \cup {last.ret.version.id}
             /\ \A v \in DOMAIN last.pre.versions : View.versions[v] = last.pre.versions[v]
             /\ View.versions[last.ret.version.id].record_id = last.ret.record.id
             /\ last.ret.record.name = last.arg.key
             /\ \A v \in DOMAIN View.versions :
                   View.records[View.versions[v].record_id] = last.arg.key
                   => View.versions[v].record_id = last.ret.record.id
             /\ IF NameTaken(last.pre, last.arg.key)
                THEN /\ last.ret.record.id = RecordNamed(last.pre, last.arg.key)
                     /\ View.records = last.pre.records
                     /\ View.events = last.pre.events
                ELSE /\ last.ret.record.id \notin DOMAIN last.pre.records
                     /\ View.records = Put(last.pre.records, last.ret.record.id,
                                           last.arg.key)
                     /\ View.events =
                           Append(last.pre.events,
                                  [type |-> SystemEventTypeAddNewRecord,
                                   meta |-> [record_id |-> last.ret.record.id,
                                             record_name |-> last.arg.key]])

\* a second version is written under the record of a known name while the
\* audit insert would fail
C25_Witness ==
    /\ last.op = "RecordKeyValue"
    /\ last.ok
    /\ last.fault = "audit"
    /\ NameTaken(last.pre, last.arg.key)
    /\ Cardinality({v \in DOMAIN View.versions :
                      View.versions[v].record_id = last.ret.record.id}) = 2

IsPrefix(s, t) == Len(s) <= Len(t) /\ SubSeq(t, 1, Len(s)) = s

C27_Step ==
    /\ IsPrefix(db.events, db'.events)
    /\ ( sess.open /\ sess'.open ) => IsPrefix(sess.db.events, sess'.db.events)
    /\ ( ~sess.open /\ sess'.open ) => IsPrefix(db.events, sess'.db.events)

\* C27: the audit log is append-only: every step of the persistence layer,
\* the cryptography engine or the protected KV store, a commit and a
\* rollback included, leaves every committed audit event in place and
\* unchanged, and a transaction sees its own log only grow; the events
\* that mention a deleted record or a deleted key stay.
C27_AppendOnly == [][C27_Step]_vars

\* the key and a record were deleted: the events of their creation are
\* still in the committed log
C27_Witness ==
    /\ last.op = "Engine.DeleteEncryptionKey"
    /\ last.ok
    /\ ~sess.open
    /\ last.arg \notin DOMAIN db.keys
    /\ HasKeyEvent(db, SystemEventTypeNewEncryptionKey, last.arg)
    /\ HasKeyEvent(db, SystemEventTypeDeleteEncryptionKey, last.arg)
    /\ \E r \in RecIds :
          /\ r \notin DOMAIN db.records
          /\ HasRecordEvent(db, SystemEventTypeAddNewRecord, r)
          /\ HasRecordEvent(db, SystemEventTypeDeleteRecord, r)


Selected(t, targetState) ==
    {k \in DOMAIN t.keys : targetState = {} \/ t.keys[k].state \in targetState}

Unmentioned(t, keyID) ==
    \A i \in 1..Len(t.events) : t.events[i].meta # SystemEventEncKeyRelated(keyID)

\* what a successful RecordEncryptionKey leaves behind
C29_Recorded(l, v) ==
    LET id == l.ret.id
    IN /\ id \notin DOMAIN l.pre.keys
       /\ Unmentioned(l.pre, id)
       /\ l.ret = [id |-> id, mat |-> l.arg, state |-> EncryptionKeyStateActive]
       /\ DOMAIN v.keys = DOMAIN l.pre.keys \cup {id}
       /\ \A k \in DOMAIN l.pre.keys : v.keys[k] = l.pre.keys[k]
       /\ v.keys[id] = [mat |-> l.arg, state |-> EncryptionKeyStateActive]
       /\ v.events = Append(l.pre.events,
                            [type |-> SystemEventTypeNewEncryptionKey,
                             meta |-> SystemEventEncKeyRelated(id)])
       /\ v.records = l.pre.records
       /\ v.versions = l.pre.versions
       /\ v.sys = l.pre.sys

\* what a successful GetEncryptionKey returns
C29_Fetched(l) ==
    /\ l.arg \in DOMAIN l.pre.keys
    /\ l.ret = [id |-> l.arg, mat |-> l.pre.keys[l.arg].mat,
                state |-> l.pre.keys[l.arg].state]

C29_Step ==
    /\ ( last'.op = "RecordEncryptionKey" /\ last'.ok ) => C29_Recorded(last', View')
    /\ ( last'.op = "GetEncryptionKey" /\ last'.ok ) => C29_Fetched(last')
    /\ \A k \in DOMAIN View.keys \cap DOMAIN View'.keys :
          View'.keys[k].mat = View.keys[k].mat
    /\ ~( sess'.open /\ sess'.failed ) =>
          \A k \in DOMAIN View'.keys :
              View'.keys[k].state = EncryptionKeyStateActive
                 \/ HasKeyEvent(View', SystemEventTypeDeactivateEncryptionKey, k)

\* C29: a successful RecordEncryptionKey inserts exactly one key row, under
\* an id that names no earlier row and appears in no earlier audit event,
\* holding the given material in state ACTIVE, and appends exactly one
\* ADD_NEW_ENCRYPTION_KEY event carrying that id; nothing else changes.
\* From then on no step changes the material of a row, a row that has
\* never been deactivated is ACTIVE wherever a call can still be made (not
\* inside a transaction that has failed and awaits its rollback), and
\* GetEncryptionKey returns the row as it stands: a later GetEncryptionKey
\* of the id returns the recorded material and state ACTIVE.
C29_RecordThenGet == [][C29_Step]_vars

C29_Witness ==
    /\ last.op = "GetEncryptionKey"
    /\ last.ok
    /\ last.ret.state = EncryptionKeyStateActive
    /\ last.ret.mat \in Materials
    /\ Len(last.pre.events) >= 3
    /\ last.pre.events[1] = [type |-> SystemEventTypeNewEncryptionKey,
                             meta |-> SystemEventEncKeyRelated(last.arg)]
    /\ ~HasKeyEvent(last.pre, SystemEventTypeDeactivateEncryptionKey, last.arg)


Holding(l, g) == ReadHeld(l, g) \/ WriteHeld(l, g)

Waiting(g) == pc[g].at \in {"rwait", "wwait"}

Critical(g) == pc[g].at \in {"lookup", "insert", "delete"}

\* how many times g stands in the lock: as reader, parked reader,
\* announced writer or queued writer
Stakes(l, g) ==
    (IF g \in l.readers THEN 1 ELSE 0) + (IF g \in l.rblocked THEN 1 ELSE 0)
    + (IF l.w = g THEN 1 ELSE 0)
    + Cardinality({i \in 1..Len(l.wq) : l.wq[i] = g})

C30_Discipline ==
    \A g \in Goroutines :
        /\ Stakes(keyCacheLock, g) <= 1
        /\ pc[g].at \in {"idle", "db", "unwrap", "loop", "commit"} =>
              Stakes(keyCacheLock, g) = 0
        /\ pc[g].at = "lookup" => ReadHeld(keyCacheLock, g)
        /\ pc[g].at \in {"insert", "delete"} => WriteHeld(keyCacheLock, g)
        /\ WriteHeld(keyCacheLock, g) =>
              \A h \in Goroutines \ {g} : ~Holding(keyCacheLock, h)

C30_Step ==
    /\ \A g \in Goroutines :
          ( Critical(g) /\ pc'[g] # pc[g] ) => Stakes(keyCacheLock', g) = 0
    /\ encKeys' # encKeys =>
          \E g \in Goroutines :
              /\ pc[g].at \in {"insert", "delete"}
              /\ pc'[g] # pc[g]
              /\ \A k \in (DOMAIN encKeys \cup DOMAIN encKeys') \ {pc[g].key} :
                    /\ k \in DOMAIN encKeys \cap DOMAIN encKeys'
                    /\ encKeys'[k] = encKeys[k]

\* C30: the lock of the DEK cache is never held, nor waited for twice,
\* by a goroutine that is in a database round trip or in an RSA unwrap:
\* a goroutine stands in the lock at most once, holds it only at a map
\* lookup (shared) or a map insert or delete (exclusive), leaves it with
\* the very step that does that one map operation, and the unwrapped
\* key is inserted afterwards under the exclusive lock.  Under fair
\* scheduling every goroutine that waits for the lock gets it.
C30_LockDiscipline ==
    /\ []C30_Discipline
    /\ [][C30_Step]_vars
    /\ \A g \in Goroutines : Waiting(g) ~> Critical(g)

C30_Witness ==
    \E g, h, i \in Goroutines :
        /\ pc[g].at = "insert"
        /\ pc[g].op = "MarkEncryptionKeyActive"
        /\ pc[h].at = "wwait"
        /\ keyCacheLock.wq = <<h>>
        /\ pc[i].at = "rwait"
        /\ i \in keyCacheLock.rblocked


AddRecordEvents(t, name) ==
    {i \in 1..Len(t.events) :
        /\ t.events[i].type = SystemEventTypeAddNewRecord
        /\ t.events[i].meta.record_name = name}

\* C31: however concurrent RecordKeyValue calls, each in a transaction of
\* its own, interleave on a name no record has yet, the committed database
\* never holds two records of one name nor two ADD_NEW_RECORD events for
\* it, every committed version written for the name references the one
\* record of that name, and a call that fails commits none of its rows and
\* returns no record: the caller that loses the race gets an error.
C31_OneRecordPerName ==
    /\ \A r1, r2 \in DOMAIN db.records :
          db.records[r1] = db.records[r2] => r1 = r2
    /\ \A name \in Names : Cardinality(AddRecordEvents(db, name)) <= 1
    /\ \A v \in DOMAIN db.versions :
          /\ v \in DOMAIN written
          /\ db.versions[v].record_id \in DOMAIN db.records
          /\ db.records[db.versions[v].record_id] = written[v].key
          /\ written[v].record.id = db.versions[v].record_id
    /\ ( last.op = "RecordKeyValue" /\ ~last.ok ) =>
          /\ last.ret = Nil
          /\ \A r \in DOMAIN last.arg.own.records : r \notin DOMAIN db.records
          /\ \A i \in 1..Len(db.events) :
                \A j \in 1..Len(last.arg.own.events) :
                    db.events[i] # last.arg.own.events[j]
    /\ ( last.op = "RecordKeyValue" /\ last.ok ) =>
          /\ last.ret.record.id \in DOMAIN db.records
          /\ db.records[last.ret.record.id] = last.arg.key

\* a caller found the name unknown, another caller committed a record of
\* that name with a version first, and the first caller's insert failed
C31_Witness ==
    /\ last.op = "RecordKeyValue"
    /\ ~last.ok
    /\ last.arg.at = "DefineNewRecord"
    /\ NameTaken(db, last.arg.key)
    /\ \E v \in DOMAIN db.versions : written[v].key = last.arg.key


\* the record of t has versions, all of them encrypted under keyID
AllUnder(t, recordID, keyID) ==
    /\ \E v \in DOMAIN t.versions : t.versions[v].record_id = recordID
    /\ \A v \in DOMAIN t.versions :
          t.versions[v].record_id = recordID => t.versions[v].enc_key_id = keyID

\* C32: a successful DeleteEncryptionKey leaves every record row as it
\* was: a record whose versions were all encrypted under the deleted key
\* is still found by name and lists no version.  A successful DeleteRecord
\* leaves every encryption-key row, and its state, as it was.
C32_DeleteFrames ==
    /\ ( last.op \in {"DeleteEncryptionKey", "Engine.DeleteEncryptionKey"} /\ last.ok ) =>
          /\ View.records = last.pre.records
          /\ \A r \in DOMAIN last.pre.records :
                LET name == last.pre.records[r]
                    listed == ListKeyVersionsCore(View, encKeys, name)
                IN /\ GetRecordByName(View, name).ok
                   /\ GetRecordByName(View, name).ret = [id |-> r, name |-> name]
                   /\ listed.ok
                   /\ AllUnder(last.pre, r, last.arg) => listed.ret.versions = {}
    /\ ( last.op \in {"DeleteRecord", "DeleteKey"} /\ last.ok ) =>
          View.keys = last.pre.keys

C32_Witness ==
    /\ last.op = "DeleteEncryptionKey"
    /\ last.ok
    /\ \E r \in DOMAIN View.records :
          /\ AllUnder(last.pre, r, last.arg)
          /\ ListKeyVersionsCore(View, encKeys, View.records[r]).ret.versions = {}
    /\ View.keys # Empty


\* the rows that t and t2 both hold are the same rows: every column of a
\* version, and the material of a key
SameRows(t, t2) ==
    /\ \A v \in DOMAIN t.versions \cap DOMAIN t2.versions :
          /\ t2.versions[v].record_id = t.versions[v].record_id
          /\ t2.versions[v].enc_key_id = t.versions[v].enc_key_id
          /\ t2.versions[v].enc_value = t.versions[v].enc_value
          /\ t2.versions[v].enc_nonce = t.versions[v].enc_nonce
          /\ t2.versions[v].created_at = t.versions[v].created_at
    /\ \A k \in DOMAIN t.keys \cap DOMAIN t2.keys : t2.keys[k].mat = t.keys[k].mat

\* the operations that insert a version, and those that delete one
VersionWriters == {"DefineNewVersionForRecord", "RecordKeyValue"}
VersionCascades ==
    {"DeleteRecord", "DeleteKey", "DeleteEncryptionKey", "Engine.DeleteEncryptionKey"}

\* what one operation does to the version table it runs against
C33_Effect(t, t2, op) ==
    /\ SameRows(t, t2)
    /\ DOMAIN t2.versions \ DOMAIN t.versions # {} => op \in VersionWriters
    /\ DOMAIN t.versions \ DOMAIN t2.versions # {} => op \in VersionCascades
    /\ Cardinality(DOMAIN t2.versions \ DOMAIN t.versions) <= 1

C33_Step ==
    /\ SameRows(db, db')
    /\ ( ~sess.open /\ ~sess'.open ) => C33_Effect(db, db', last'.op)
    /\ ( ~sess.open /\ sess'.open ) => SameRows(db, sess'.db) /\ db' = db
    /\ ( sess.open /\ sess'.open ) => C33_Effect(sess.db, sess'.db, last'.op) /\ db' = db

\* C33: record versions are immutable after insert: no step of the
\* persistence layer, the engine or the store, a commit and a rollback
\* included, changes the record_id, enc_key_id, enc_value, enc_nonce or
\* created_at of a version that exists before and after it; a version
\* appears only through DefineNewVersionForRecord (directly or inside
\* RecordKeyValue), one at a time, and disappears only through the cascade
\* of a record or key delete; activating or deactivating a key never
\* changes its enc_key_material.
C33_Immutable == [][C33_Step]_vars

\* a key was deactivated: its material and the two versions written under
\* it before are what they were
C33_Witness ==
    /\ last.op = "MarkEncryptionKeyInactive"
    /\ last.ok
    /\ last.pre.keys[last.arg].state = EncryptionKeyStateActive
    /\ View.keys[last.arg].state = EncryptionKeyStateInactive
    /\ View.keys[last.arg].mat = last.pre.keys[last.arg].mat
    /\ Cardinality(DOMAIN View.versions) = MaxVersions
    /\ \A v \in DOMAIN View.versions :
          /\ View.versions[v].enc_key_id = last.arg
          /\ View.versions[v] = last.pre.versions[v]


\* C34: when GetEncryptionKey(k) runs concurrently with
\* MarkEncryptionKeyInactive(k) on one engine, then once every call has
\* returned the cache holds no entry for a key whose persisted state is
\* INACTIVE.
C34_NoEntryForInactive ==
    Quiet => \A k \in DOMAIN encKeys :
                 k \in DOMAIN db.keys => db.keys[k].state # EncryptionKeyStateInactive

\* the fetch read the key ACTIVE, the deactivation committed and evicted,
\* and the fetch then wrote its entry: every call has returned, the key
\* is INACTIVE and its plaintext is cached
C34_StaleAfterRace ==
    /\ Quiet
    /\ last.op = "Engine.GetEncryptionKey"
    /\ last.ok
    /\ last.arg \in DOMAIN encKeys
    /\ encKeys[last.arg].plain # NoPlain
    /\ last.arg \notin DOMAIN last.cache
    /\ db.keys[last.arg].state = EncryptionKeyStateInactive


\* C35: when NewEncryptionKey or MarkEncryptionKeyActive joins a caller's
\* transaction and that transaction is rolled back, the cache keeps no
\* plaintext entry for a key that is absent from, or INACTIVE in, the
\* committed database: with no caller transaction open, every cached key
\* is a committed ACTIVE key.
C35_NoEntryWithoutCommit ==
    ~sess.open => \A k \in DOMAIN encKeys : KeyActiveIn(db, k)

\* the rolled-back transaction had created one key and activated another:
\* the first is absent and the second INACTIVE in the committed database,
\* and the plaintext of both is cached
C35_KeptAfterRollback ==
    /\ last.op = "RollbackSession"
    /\ ~sess.open
    /\ \E k \in DOMAIN encKeys :
          /\ k \notin DOMAIN db.keys
          /\ encKeys[k].plain # NoPlain
    /\ \E k \in DOMAIN encKeys :
          /\ k \in DOMAIN db.keys
          /\ db.keys[k].state = EncryptionKeyStateInactive
          /\ encKeys[k].plain # NoPlain


C37_Entries ==
    \A k \in DOMAIN encKeys :
        /\ encKeys[k].id = k
        /\ encKeys[k].state = EncryptionKeyStateActive
        /\ Len(encKeys[k].plain) > 0
        /\ RSADecrypt(encKeys[k].mat) = [ok |-> TRUE, key |-> encKeys[k].plain]

\* an entry present before and after a step is the same entry
C37_Step ==
    \A k \in DOMAIN encKeys \cap DOMAIN encKeys' : encKeys'[k] = encKeys[k]

\* C37: in every reachable state each entry of the plaintext-key cache is
\* stored under its own key id, records state ACTIVE and has a non-empty
\* plaintext key, the one its material unwraps to; an entry is never
\* updated: a step leaves it as it is or removes it (deactivation, delete).
C37_CacheEntries == []C37_Entries /\ [][C37_Step]_vars

\* the key was cached and has just been deactivated: its entry is gone,
\* another key's entry is still there
C37_Witness ==
    /\ last.op = "Engine.MarkEncryptionKeyInactive"
    /\ last.ok
    /\ last.arg \in DOMAIN last.cache
    /\ last.arg \notin DOMAIN encKeys
    /\ encKeys # Empty


\* rows of a table = events of their creation - events of their deletion
Accounted(t) ==
    /\ Cardinality(DOMAIN t.keys) =
          EventCount(t, SystemEventTypeNewEncryptionKey)
              - EventCount(t, SystemEventTypeDeleteEncryptionKey)
    /\ Cardinality(DOMAIN t.records) =
          EventCount(t, SystemEventTypeAddNewRecord)
              - EventCount(t, SystemEventTypeDeleteRecord)

\* C38: audit accounting: in every committed state reached through the
\* persistence operations the number of encryption-key rows is the number
\* of ADD_NEW_ENCRYPTION_KEY events minus the number of
\* DELETE_ENCRYPTION_KEY events, and the number of record rows is the
\* number of ADD_NEW_RECORD events minus the number of DELETE_RECORD
\* events; a delete of a key or a record that does not exist fails and
\* leaves the log and the tables as they were.
C38_AuditAccounting ==
    /\ Accounted(db)
    /\ ( /\ last.op = "DeleteEncryptionKey"
         /\ last.arg \notin DOMAIN last.pre.keys ) =>
          ~last.ok /\ Tables(View) = last.pre
    /\ ( /\ last.op = "DeleteRecord"
         /\ last.arg \notin DOMAIN last.pre.records ) =>
          ~last.ok /\ Tables(View) = last.pre

\* a key and a record were created and deleted, and the delete of the
\* record that is gone has just failed
C38_Witness ==
    /\ last.op = "DeleteRecord"
    /\ ~last.ok
    /\ last.arg \notin DOMAIN last.pre.records
    /\ EventCount(db, SystemEventTypeDeleteRecord) = 1
    /\ EventCount(db, SystemEventTypeDeleteEncryptionKey) = 1
    /\ Len(db.events) = 4


\* the version row is the one RecordKeyValue had to write for this record
\* and timestamp through this handle
WrittenBy(row, record, timestamp) ==
    /\ row.enc_key_id = store.workingKey.id
    /\ row.record_id = record.id
    /\ row.created_at = timestamp
    /\ row.updated_at = timestamp

\* C39: every version created by RecordKeyValue on a store handle has
\* enc_key_id equal to the handle's working key id, record_id equal to the
\* id of the record returned with it, and created_at = updated_at = the
\* caller's timestamp, in the value returned and in the row stored; so all
\* the versions written through the handle share one key id.
C39_VersionFields ==
    /\ ( last.op = "RecordKeyValue" /\ last.ok ) =>
          /\ WrittenBy(last.ret.version, last.ret.record, last.arg.timestamp)
          /\ last.ret.record.name = last.arg.key
          /\ last.ret.version.id \in DOMAIN View.versions
          /\ VersionOf(View, last.ret.version.id) = last.ret.version
    /\ \A v \in DOMAIN written \cap DOMAIN View.versions :
          WrittenBy(View.versions[v], written[v].record, written[v].timestamp)
    /\ \A v, w \in DOMAIN written :
          written[v].version.enc_key_id = written[w].version.enc_key_id

\* two versions were written through the handle while another key was
\* ACTIVE as well
C39_Witness ==
    /\ last.op = "RecordKeyValue"
    /\ last.ok
    /\ Cardinality(DOMAIN written \cap DOMAIN View.versions) = 2
    /\ \E k \in DOMAIN View.keys :
          /\ k # store.workingKey.id
          /\ View.keys[k].state = EncryptionKeyStateActive
    /\ \E v, w \in DOMAIN written : written[v].record.id # written[w].record.id

====
